---- MODULE Spec2Model ----
(***************************************************************************)
(* RPKI certificate core of rpki-client (cert.c rev. 1.69, carried in      *)
(* src/usr.bin/sndiod/sndiod.c from line 712 on): the RFC 3779 resource    *)
(* decoders, cert_parse_pre and its two follow-up checks, the record       *)
(* (de)serialisation, and the trust and router-key indexes.                *)
(*                                                                         *)
(* The parser is modelled as a machine that consumes its input one ASN.1   *)
(* element at a time: every loop iteration of the C code is one action,    *)
(* and the element it examines is drawn from a bounded set.                *)
(*                                                                         *)
(* Strings are sequences of small naturals; the C NULL pointer is NULL.    *)
(*                                                                         *)
(* Two further parts of the tree are modelled beside it: the signal        *)
(* handling of sndiod (the same file, lines 1 to 711) and the locking      *)
(* protocol of pf_state_list (sys/net/pfvar_priv.h).                       *)
(***************************************************************************)
EXTENDS Integers, Sequences, FiniteSets, TLC

VARIABLES
    pc,           \* where cert_parse_pre / its caller stands
    res,          \* struct cert under construction (p.res), or FREED
    sia_present,  \* cert_parse_pre local
    afi,          \* sbgp_ipaddrfam local ip.afi while its items are decoded
    last,         \* the input element examined by the latest step
    diag,         \* which check made the latest step fail ("" if none)
    buf,          \* struct ibuf written by cert_buffer
    rd,           \* struct cert returned by cert_read
    xobj,         \* the X509 object d2i_X509 made for the certificate in hand
    auths,        \* struct auth_tree, in-order
    brks,         \* struct brk_tree, in-order
    brklog,       \* history: the struct brk of every insert_brk call, in call order
    fatal,        \* the process has been terminated by err(1, ...) / assert
    cib,          \* the frame of cert_insert_brks while it runs: cert, i, asid
    size_w,       \* the width of a size_t in this build, in bits
    pfs_list,     \* pf_state_list.pfs_list: the TAILQ_HEAD, first and last
    entry_next,   \* the entry_list link of every pf_state: its next pointer
    pfs_mtx,      \* pf_state_list.pfs_mtx: its owner
    pfs_rwl,      \* pf_state_list.pfs_rwl: its readers and its writer
    pf_pc,        \* where every context stands in its list operation
    pf_loc,       \* the locals of every context: head, tail, state, next
    quit_flag,    \* sndiod: volatile sig_atomic_t quit_flag
    reopen_flag,  \* sndiod: volatile sig_atomic_t reopen_flag
    sigact,       \* sndiod: the disposition of SIGINT, SIGTERM and SIGHUP
    main_pc,      \* sndiod: where main stands
    exited,       \* sndiod: whether the process runs still, or how it ended
    reopen_pos,   \* sndiod: how many devices and ports the reopen has done
    fdpass_peer,  \* sndiod: the helper's socket is open (fdpass_peer != NULL)
    sig_last      \* sndiod: the latest step, and the signal it delivered

vars == <<pc, res, sia_present, afi, last, diag, buf, rd, xobj, auths, brks, brklog, fatal,
         cib, size_w, pfs_list, entry_next, pfs_mtx, pfs_rwl, pf_pc, pf_loc,
         quit_flag, reopen_flag, sigact, main_pc, exited, reopen_pos, fdpass_peer,
         sig_last>>

certVars == <<pc, res, sia_present, afi, last, diag, buf, rd, xobj>>
indexVars == <<auths, brks, brklog, fatal>>
loopVars == <<cib, size_w>>
\* what the certificate pipeline and the two indexes leave alone
pfVars == <<pfs_list, entry_next, pfs_mtx, pfs_rwl, pf_pc, pf_loc>>
sigVars == <<quit_flag, reopen_flag, sigact, main_pc, exited, reopen_pos, fdpass_peer,
            sig_last>>
restVars == <<pfVars, sigVars>>
otherVars == <<loopVars, restVars>>

-----------------------------------------------------------------------------
(* Bounds of the model *)

\* AS identifiers offered to the decoder are -1..MaxAsn and UINT32_MAX + 1
MaxAsn == 3
\* resource lists are capped at this many entries (stands for extern.h's 200000)
MAX_AS_SIZE == 2
MAX_IP_SIZE == 2
\* addresses of either family are 0..MaxAddr
MaxAddr == 1
\* the clock and the validity dates are 0..MaxTime
MaxTime == 3

\* TLC's integers are narrower than 2^32: an uint32_t is modelled with
\* AsnBits bits, an int likewise, and a size_t with twice as many
AsnBits == 4
UINT32_MAX == 2^AsnBits - 1

-----------------------------------------------------------------------------
(* Strings *)

NULL == << -1 >>

RECURSIVE strcmp(_, _)
strcmp(a, b) ==
    IF a = << >> /\ b = << >> THEN 0
    ELSE IF a = << >> THEN -1
    ELSE IF b = << >> THEN 1
    ELSE IF Head(a) < Head(b) THEN -1
    ELSE IF Head(a) > Head(b) THEN 1
    ELSE strcmp(Tail(a), Tail(b))

\* strstr(hay, needle) = hay, i.e. needle is a prefix of hay
IsPrefix(needle, hay) ==
    /\ Len(needle) <= Len(hay)
    /\ SubSeq(hay, 1, Len(needle)) = needle

-----------------------------------------------------------------------------
(* struct cert *)

CERT_PURPOSE_INVALID == "INVALID"
CERT_PURPOSE_CA == "CA"
CERT_PURPOSE_BGPSEC_ROUTER == "BGPSEC_ROUTER"

NoX509 == [present |-> FALSE, notBefore |-> 0, notAfter |-> 0, pubkey |-> NULL]

\* calloc(1, sizeof(struct cert))
EmptyCert ==
    [ips |-> << >>, as |-> << >>, repo |-> NULL, mft |-> NULL, notify |-> NULL,
     crl |-> NULL, aia |-> NULL, aki |-> NULL, ski |-> NULL, talid |-> 0,
     purpose |-> CERT_PURPOSE_INVALID, pubkey |-> NULL, expires |-> 0,
     x509 |-> NoX509]

\* the record after cert_free
FREED == [freed |-> TRUE]

Ret(rc, r, d) == [rc |-> rc, res |-> r, diag |-> d]

-----------------------------------------------------------------------------
(* AS resources *)

CERT_AS_ID == "AS_ID"
CERT_AS_INHERIT == "AS_INHERIT"
CERT_AS_RANGE == "AS_RANGE"

ASID_TYPE_ASNUM == 0
ASID_TYPE_RDI == 1
ASID_TYPE_MAX == ASID_TYPE_RDI

\* memset(&as, 0, ...) followed by the assignments of the decoder
AsId(v) == [type |-> CERT_AS_ID, id |-> v, min |-> 0, max |-> 0]
AsRange(lo, hi) == [type |-> CERT_AS_RANGE, id |-> 0, min |-> lo, max |-> hi]
AsInherit == [type |-> CERT_AS_INHERIT, id |-> 0, min |-> 0, max |-> 0]

AsLo(a) == IF a.type = CERT_AS_ID THEN a.id ELSE a.min
AsHi(a) == IF a.type = CERT_AS_ID THEN a.id ELSE a.max

AsOverlap(a, b) ==
    /\ a.type # CERT_AS_INHERIT
    /\ b.type # CERT_AS_INHERIT
    /\ AsLo(a) <= AsHi(b)
    /\ AsLo(b) <= AsHi(a)

\* as_check_overlap (as.c): one inherit statement at most and never beside
\* explicit entries; no overlap with an entry already in the list
as_check_overlap(a, as) ==
    /\ ~ (Len(as) > 0 /\ (a.type = CERT_AS_INHERIT
                           \/ \E i \in 1..Len(as) : as[i].type = CERT_AS_INHERIT))
    /\ \A i \in 1..Len(as) : ~ AsOverlap(a, as[i])

\* as_id_parse (as.c): an ASN.1 INTEGER converts iff it fits an uint32_t
as_id_parse_ok(v) == v >= 0 /\ v <= UINT32_MAX

append_as_nocheck(r, as) ==
    IF Len(r.as) >= MAX_AS_SIZE
    THEN Ret(0, r, "append_as: MAX_AS_SIZE")
    ELSE Ret(1, [r EXCEPT !.as = Append(@, as)], "")

append_as(r, as) ==
    IF ~ as_check_overlap(as, r.as)
    THEN Ret(0, r, "append_as: overlap")
    ELSE IF Len(r.as) >= MAX_AS_SIZE
    THEN Ret(0, r, "append_as: MAX_AS_SIZE")
    ELSE Ret(1, [r EXCEPT !.as = Append(@, as)], "")

\* An ASN1_TYPE as the AS decoders see it: its tag, its integer value when
\* it is an INTEGER, its elements when it is a SEQUENCE (d2i_ok: the
\* sequence decodes at all)
Asn1Int(v) == [type |-> "INTEGER", int |-> v, seq |-> << >>, d2i_ok |-> TRUE]
Asn1Seq(s) == [type |-> "SEQUENCE", int |-> 0, seq |-> s, d2i_ok |-> TRUE]
Asn1BadSeq == [type |-> "SEQUENCE", int |-> 0, seq |-> << >>, d2i_ok |-> FALSE]
Asn1Null == [type |-> "NULL", int |-> 0, seq |-> << >>, d2i_ok |-> TRUE]
Asn1Bool == [type |-> "BOOLEAN", int |-> 0, seq |-> << >>, d2i_ok |-> TRUE]

sbgp_asrange_accept_singular(r, t) ==
    IF ~ t.d2i_ok THEN Ret(0, r, "ASRange: failed ASN.1 sequence parse")
    ELSE IF Len(t.seq) # 2 THEN Ret(0, r, "ASRange: want 2 elements")
    ELSE IF t.seq[1].type # "INTEGER" THEN Ret(0, r, "ASRange: want ASN.1 integer")
    ELSE IF ~ as_id_parse_ok(t.seq[1].int) THEN Ret(0, r, "ASRange: malformed AS identifier")
    ELSE IF t.seq[2].type # "INTEGER" THEN Ret(0, r, "ASRange: want ASN.1 integer")
    ELSE IF ~ as_id_parse_ok(t.seq[2].int) THEN Ret(0, r, "ASRange: malformed AS identifier")
    ELSE IF t.seq[2].int < t.seq[1].int THEN Ret(0, r, "ASRange: range is out of order")
    ELSE append_as(r, AsRange(t.seq[1].int, t.seq[2].int))

sbgp_asrange(r, t) ==
    IF ~ t.d2i_ok THEN Ret(0, r, "ASRange: failed ASN.1 sequence parse")
    ELSE IF Len(t.seq) # 2 THEN Ret(0, r, "ASRange: want 2 elements")
    ELSE IF t.seq[1].type # "INTEGER" THEN Ret(0, r, "ASRange: want ASN.1 integer")
    ELSE IF ~ as_id_parse_ok(t.seq[1].int) THEN Ret(0, r, "ASRange: malformed AS identifier")
    ELSE IF t.seq[2].type # "INTEGER" THEN Ret(0, r, "ASRange: want ASN.1 integer")
    ELSE IF ~ as_id_parse_ok(t.seq[2].int) THEN Ret(0, r, "ASRange: malformed AS identifier")
    ELSE IF t.seq[2].int = t.seq[1].int THEN Ret(0, r, "ASRange: range is singular")
    ELSE IF t.seq[2].int < t.seq[1].int THEN Ret(0, r, "ASRange: range is out of order")
    ELSE append_as(r, AsRange(t.seq[1].int, t.seq[2].int))

sbgp_asid_accept_zero(r, t) ==
    IF ~ as_id_parse_ok(t.int) THEN Ret(0, r, "ASId: malformed AS identifier")
    ELSE append_as(r, AsId(t.int))

sbgp_asid(r, t) ==
    IF ~ as_id_parse_ok(t.int) THEN Ret(0, r, "ASId: malformed AS identifier")
    ELSE IF t.int = 0 THEN Ret(0, r, "ASId: AS identifier zero is reserved")
    ELSE append_as(r, AsId(t.int))

\* one iteration of the loop of sbgp_asnum over the ASIdOrRange items
sbgp_asnum_item(r, tt) ==
    CASE tt.type = "INTEGER" -> sbgp_asid(r, tt)
      [] tt.type = "SEQUENCE" -> sbgp_asrange(r, tt)
      [] OTHER -> Ret(0, r, "ASIdOrRange: want ASN.1 sequence or integer")

-----------------------------------------------------------------------------
(* IP resources *)

AFI_IPV4 == "IPV4"
AFI_IPV6 == "IPV6"

CERT_IP_ADDR == "IP_ADDR"
CERT_IP_RANGE == "IP_RANGE"
CERT_IP_INHERIT == "IP_INHERIT"

\* struct cert_ip: family, kind and the composed bounds min/max
IpEntry(f, ty, lo, hi) == [afi |-> f, type |-> ty, min |-> lo, max |-> hi]
IpInherit(f) == IpEntry(f, CERT_IP_INHERIT, 0, 0)

IpOverlap(a, b) ==
    /\ a.afi = b.afi
    /\ a.type # CERT_IP_INHERIT
    /\ b.type # CERT_IP_INHERIT
    /\ a.min <= b.max
    /\ b.min <= a.max

\* ip_addr_check_overlap (ip.c): per family one inherit statement at most
\* and never beside explicit entries; no overlap within a family
ip_addr_check_overlap(ip, ips) ==
    /\ \A i \in 1..Len(ips) :
          ips[i].afi = ip.afi =>
              /\ ips[i].type # CERT_IP_INHERIT
              /\ ip.type # CERT_IP_INHERIT
    /\ \A i \in 1..Len(ips) : ~ IpOverlap(ip, ips[i])

append_ip_nocheck(r, ip) ==
    IF Len(r.ips) >= MAX_IP_SIZE
    THEN Ret(0, r, "append_ip: MAX_IP_SIZE")
    ELSE Ret(1, [r EXCEPT !.ips = Append(@, ip)], "")

\* append_ip as if the list had no maximum
append_ip_nolimit(r, ip) ==
    IF ~ ip_addr_check_overlap(ip, r.ips)
    THEN Ret(0, r, "append_ip: overlap")
    ELSE Ret(1, [r EXCEPT !.ips = Append(@, ip)], "")

\* append_ip as if it kept the list ordered by the low end
append_ip_sorted(r, ip) ==
    IF ~ ip_addr_check_overlap(ip, r.ips)
    THEN Ret(0, r, "append_ip: overlap")
    ELSE IF Len(r.ips) >= MAX_IP_SIZE
    THEN Ret(0, r, "append_ip: MAX_IP_SIZE")
    ELSE LET lower == SelectSeq(r.ips, LAMBDA e : e.min <= ip.min)
             upper == SelectSeq(r.ips, LAMBDA e : e.min > ip.min)
         IN  Ret(1, [r EXCEPT !.ips = lower \o <<ip>> \o upper], "")

append_ip(r, ip) ==
    IF ~ ip_addr_check_overlap(ip, r.ips)
    THEN Ret(0, r, "append_ip: overlap")
    ELSE IF Len(r.ips) >= MAX_IP_SIZE
    THEN Ret(0, r, "append_ip: MAX_IP_SIZE")
    ELSE Ret(1, [r EXCEPT !.ips = Append(@, ip)], "")

\* An ASN.1 BIT STRING holding an address prefix: ip_addr_parse (ip.c)
\* accepts it or not (ok), and a prefix covers the aligned block lo..hi
BitStr(lo, hi) == [type |-> "BIT_STRING", ok |-> TRUE, lo |-> lo, hi |-> hi,
                   seq |-> << >>, d2i_ok |-> TRUE]
BadBitStr == [type |-> "BIT_STRING", ok |-> FALSE, lo |-> 0, hi |-> 0,
              seq |-> << >>, d2i_ok |-> TRUE]
IpSeq(s) == [type |-> "SEQUENCE", ok |-> TRUE, lo |-> 0, hi |-> 0,
             seq |-> s, d2i_ok |-> TRUE]
IpBadSeq == [type |-> "SEQUENCE", ok |-> TRUE, lo |-> 0, hi |-> 0,
             seq |-> << >>, d2i_ok |-> FALSE]
IpOther == [type |-> "INTEGER", ok |-> TRUE, lo |-> 0, hi |-> 0,
            seq |-> << >>, d2i_ok |-> TRUE]

\* ip_cert_compose_ranges (ip.c): min is the low end of the prefix (of the
\* range's first prefix), max the high end of the prefix (of the range's
\* second prefix); fails when min > max
sbgp_addr(r, f, bs) ==
    IF ~ bs.ok THEN Ret(0, r, "IPAddress: invalid IP address")
    ELSE IF bs.lo > bs.hi THEN Ret(0, r, "IPAddress: IP address range reversed")
    ELSE append_ip(r, IpEntry(f, CERT_IP_ADDR, bs.lo, bs.hi))

sbgp_addr_range(r, f, t) ==
    IF ~ t.d2i_ok THEN Ret(0, r, "IPAddressRange: failed ASN.1 sequence parse")
    ELSE IF Len(t.seq) # 2 THEN Ret(0, r, "IPAddressRange: want 2 elements")
    ELSE IF t.seq[1].type # "BIT_STRING" THEN Ret(0, r, "IPAddressRange: want ASN.1 bit string")
    ELSE IF ~ t.seq[1].ok THEN Ret(0, r, "IPAddressRange: invalid IP address")
    ELSE IF t.seq[2].type # "BIT_STRING" THEN Ret(0, r, "IPAddressRange: want ASN.1 bit string")
    ELSE IF ~ t.seq[2].ok THEN Ret(0, r, "IPAddressRange: invalid IP address")
    ELSE IF t.seq[1].lo > t.seq[2].hi THEN Ret(0, r, "IPAddressRange: IP address range reversed")
    ELSE append_ip(r, IpEntry(f, CERT_IP_RANGE, t.seq[1].lo, t.seq[2].hi))

\* one iteration of the loop of sbgp_addr_or_range
sbgp_addr_or_range_item(r, f, t) ==
    CASE t.type = "BIT_STRING" -> sbgp_addr(r, f, t)
      [] t.type = "SEQUENCE" -> sbgp_addr_range(r, f, t)
      [] OTHER -> Ret(0, r, "IPAddressOrRange: want ASN.1 sequence or bit string")

-----------------------------------------------------------------------------
(* Subject Information Access and certificate policies *)

\* URIs: the first element stands for the scheme, the last one for the
\* file extension
SchemeRsync == <<1>>
SchemeHttps == <<2>>
RepoUri == <<1, 5>>
OtherRepoUri == <<1, 6>>
MftUri == <<1, 5, 9>>
NotMftUri == <<1, 5, 8>>
NotifyUri == <<2, 7>>
BadUri == <<0, 5>>
CrlUri == <<1, 5, 4>>
AiaUri == <<1, 3>>

\* valid_uri (validate.c): the locator carries the wanted scheme
valid_uri(uri, proto) == IsPrefix(proto, uri)

\* rtype_from_file_extension (mft.c) = RTYPE_MFT
IsMftFile(uri) == Len(uri) > 0 /\ uri[Len(uri)] = 9

\* one iteration of the loop of sbgp_sia over the access descriptions;
\* x509_location (x509.c) stores the locator when it is a URI of the scheme
sbgp_sia_ad(r, ad) ==
    CASE ad.oid = "caRepository" ->
            IF ad.gen_uri /\ valid_uri(ad.uri, SchemeRsync)
            THEN Ret(1, [r EXCEPT !.repo = ad.uri], "")
            ELSE Ret(0, r, "SIA: caRepository: bad location")
      [] ad.oid = "rpkiManifest" ->
            IF ad.gen_uri /\ valid_uri(ad.uri, SchemeRsync)
            THEN Ret(1, [r EXCEPT !.mft = ad.uri], "")
            ELSE Ret(0, r, "SIA: rpkiManifest: bad location")
      [] ad.oid = "rpkiNotify" ->
            IF ad.gen_uri /\ valid_uri(ad.uri, SchemeHttps)
            THEN Ret(1, [r EXCEPT !.notify = ad.uri], "")
            ELSE Ret(0, r, "SIA: rpkiNotify: bad location")
      [] OTHER -> Ret(1, r, "")

\* sbgp_sia as if the manifest need not lie below the repository
sbgp_sia_end_any_repo(r) ==
    IF r.mft = NULL \/ r.repo = NULL
    THEN Ret(0, r, "SIA: missing caRepository or rpkiManifest")
    ELSE IF ~ IsMftFile(r.mft)
    THEN Ret(0, r, "SIA: not an MFT file")
    ELSE Ret(1, r, "")

\* the checks of sbgp_sia after its loop
sbgp_sia_end(r) ==
    IF r.mft = NULL \/ r.repo = NULL
    THEN Ret(0, r, "SIA: missing caRepository or rpkiManifest")
    ELSE IF ~ IsPrefix(r.repo, r.mft)
    THEN Ret(0, r, "SIA: conflicting URIs for caRepository and rpkiManifest")
    ELSE IF ~ IsMftFile(r.mft)
    THEN Ret(0, r, "SIA: not an MFT file")
    ELSE Ret(1, r, "")

\* certificate_policies as if any single qualifier would do
certificate_policies_any_qualifier(ext) ==
    IF ~ ext.critical THEN "certificatePolicies: extension not critical"
    ELSE IF ~ ext.d2i_ok THEN "certificatePolicies: failed extension parse"
    ELSE IF ext.npol # 1 THEN "certificatePolicies: want 1 policy"
    ELSE IF ~ ext.certpol_oid THEN "certificatePolicies: unexpected OID"
    ELSE IF ext.nqual = -1 THEN ""
    ELSE IF ext.nqual # 1 THEN "certificatePolicies: want 1 policy qualifier"
    ELSE ""

\* certificate_policies; nqual = -1 stands for policy->qualifiers == NULL
certificate_policies(ext) ==
    IF ~ ext.critical THEN "certificatePolicies: extension not critical"
    ELSE IF ~ ext.d2i_ok THEN "certificatePolicies: failed extension parse"
    ELSE IF ext.npol # 1 THEN "certificatePolicies: want 1 policy"
    ELSE IF ~ ext.certpol_oid THEN "certificatePolicies: unexpected OID"
    ELSE IF ext.nqual = -1 THEN ""
    ELSE IF ext.nqual # 1 THEN "certificatePolicies: want 1 policy qualifier"
    ELSE IF ~ ext.qt_cps THEN "certificatePolicies: want CPS"
    ELSE ""

-----------------------------------------------------------------------------
(* Inputs offered to the decoders *)

AsInts == (-1..MaxAsn) \cup {UINT32_MAX + 1}

AsRangeSeqs ==
    {<<Asn1Int(a), Asn1Int(b)>> : a, b \in AsInts}
    \cup {<<Asn1Int(1)>>, <<Asn1Int(0), Asn1Int(1), Asn1Int(MaxAsn)>>,
          <<Asn1Bool, Asn1Int(1)>>, <<Asn1Int(1), Asn1Bool>>}

\* the ASIdOrRange items of sbgp_asnum
AsItems ==
    {Asn1Int(v) : v \in AsInts}
    \cup {Asn1Seq(s) : s \in AsRangeSeqs}
    \cup {Asn1BadSeq, Asn1Bool}

\* the elements of the ASIdentifiers sequence of sbgp_assysnum: tag of the
\* element, result of ASN1_frame and its explicit tag, and for an asnum
\* element what d2i_ASN1_TYPE and d2i_ASN1_SEQUENCE_ANY make of its content
AsElem(ty, fr, tag, tok, tty, sok) ==
    [type |-> ty, frame_ok |-> fr, ptag |-> tag, t_ok |-> tok, ttype |-> tty,
     seq_ok |-> sok]

AsElems ==
    {AsElem("SEQUENCE", TRUE, 0, TRUE, "NULL", TRUE),
     AsElem("OTHER", FALSE, 0, TRUE, "NULL", TRUE),
     AsElem("OTHER", TRUE, ASID_TYPE_MAX + 1, TRUE, "NULL", TRUE),
     AsElem("OTHER", TRUE, ASID_TYPE_RDI, TRUE, "NULL", TRUE),
     AsElem("OTHER", TRUE, ASID_TYPE_RDI, TRUE, "SEQUENCE", TRUE),
     AsElem("OTHER", TRUE, ASID_TYPE_ASNUM, FALSE, "NULL", TRUE),
     AsElem("OTHER", TRUE, ASID_TYPE_ASNUM, TRUE, "NULL", TRUE),
     AsElem("OTHER", TRUE, ASID_TYPE_ASNUM, TRUE, "SEQUENCE", TRUE),
     AsElem("OTHER", TRUE, ASID_TYPE_ASNUM, TRUE, "SEQUENCE", FALSE),
     AsElem("OTHER", TRUE, ASID_TYPE_ASNUM, TRUE, "BOOLEAN", TRUE)}

\* an extension as the prologue of its decoder sees it: the critical flag
\* and the first framing check that fails ("" if none)
ExtFrames ==
    {"", "failed extension parse", "failed ASN.1 sequence parse",
     "want 3 elements", "want ASN.1 object", "want ASN.1 boolean",
     "want ASN.1 octet string", "failed inner ASN.1 sequence parse"}

Exts == [critical : BOOLEAN, frame : ExtFrames]

\* aligned blocks an address prefix can cover
Blocks ==
    {b \in (0..MaxAddr) \X (0..MaxAddr) :
        \E j \in 0..MaxAddr : /\ b[2] - b[1] + 1 = 2^j
                              /\ b[1] % (2^j) = 0}

BitStrs == {BitStr(b[1], b[2]) : b \in Blocks}

IpRangeSeqs ==
    {<<x, y>> : x, y \in BitStrs}
    \cup {<<BitStr(0, 0)>>, <<IpOther, BitStr(0, 0)>>, <<BitStr(0, 0), IpOther>>,
          <<BadBitStr, BitStr(0, 0)>>, <<BitStr(0, 0), BadBitStr>>}

\* the IPAddressOrRange items of sbgp_addr_or_range
IpItems ==
    BitStrs \cup {BadBitStr, IpBadSeq, IpOther}
    \cup {IpSeq(s) : s \in IpRangeSeqs}

\* the elements of the IPAddrBlocks sequence of sbgp_ipaddrblk and what
\* sbgp_ipaddrfam finds in them: element count, tag of the address family
\* and the family ip_addr_afi_parse yields ("" if none), tag of the choice
IpFam(ty, dok, n, t0, f, t1, sok) ==
    [type |-> ty, d2i_ok |-> dok, num |-> n, aftype |-> t0, afi |-> f,
     choice |-> t1, seq_ok |-> sok]

IpFams ==
    {IpFam("INTEGER", TRUE, 2, "OCTET_STRING", AFI_IPV4, "NULL", TRUE),
     IpFam("SEQUENCE", FALSE, 2, "OCTET_STRING", AFI_IPV4, "NULL", TRUE),
     IpFam("SEQUENCE", TRUE, 1, "OCTET_STRING", AFI_IPV4, "NULL", TRUE),
     IpFam("SEQUENCE", TRUE, 2, "INTEGER", AFI_IPV4, "NULL", TRUE),
     IpFam("SEQUENCE", TRUE, 2, "OCTET_STRING", "", "NULL", TRUE),
     IpFam("SEQUENCE", TRUE, 2, "OCTET_STRING", AFI_IPV4, "BOOLEAN", TRUE),
     IpFam("SEQUENCE", TRUE, 2, "OCTET_STRING", AFI_IPV6, "SEQUENCE", FALSE)}
    \cup {IpFam("SEQUENCE", TRUE, 2, "OCTET_STRING", f, c, TRUE) :
            f \in {AFI_IPV4, AFI_IPV6}, c \in {"NULL", "SEQUENCE"}}

Ad(o, g, u) == [oid |-> o, gen_uri |-> g, uri |-> u]

\* the access descriptions of sbgp_sia
SiaAds ==
    {Ad("caRepository", TRUE, RepoUri), Ad("caRepository", TRUE, OtherRepoUri),
     Ad("caRepository", TRUE, BadUri), Ad("caRepository", FALSE, RepoUri),
     Ad("rpkiManifest", TRUE, MftUri), Ad("rpkiManifest", TRUE, NotMftUri),
     Ad("rpkiManifest", TRUE, BadUri),
     Ad("rpkiNotify", TRUE, NotifyUri), Ad("rpkiNotify", TRUE, RepoUri),
     Ad("other", TRUE, BadUri)}

CertPolExts ==
    [critical : BOOLEAN, d2i_ok : {TRUE}, npol : {1}, certpol_oid : {TRUE},
     nqual : {-1}, qt_cps : {TRUE}]
    \cup [critical : {TRUE}, d2i_ok : BOOLEAN, npol : 0..2, certpol_oid : {TRUE},
          nqual : {-1}, qt_cps : {TRUE}]
    \cup [critical : {TRUE}, d2i_ok : {TRUE}, npol : {1}, certpol_oid : BOOLEAN,
          nqual : -1..2, qt_cps : BOOLEAN]

\* A certificate is offered in full variety in one of its resource lists at
\* a time: beside a non-empty IP list the AS items are the few below, and
\* beside a non-empty AS list the IP items are
AsItemsFew == {Asn1Int(0), Asn1Int(1), Asn1Seq(<<Asn1Int(1), Asn1Int(1)>>)}

IpItemsFew == {BitStr(0, 0), BadBitStr}

AsItemsOffered ==
    IF pc # "sbgp_asnum" THEN {}
    ELSE IF Len(res.ips) = 0 THEN AsItems ELSE AsItemsFew

IpItemsOffered ==
    IF pc # "sbgp_addr_or_range" THEN {}
    ELSE IF Len(res.as) = 0 THEN IpItems ELSE IpItemsFew

\* extensions cert_parse_pre passes over
IgnoredNids == {"crl_distribution_points", "undef"}

-----------------------------------------------------------------------------
(* cert_parse_pre: the walk over the extensions *)

NoAfi == ""
NoInput == [none |-> TRUE]
NoBuf == << >>
In(op, x) == [op |-> op, in |-> x]

\* the out: label of cert_parse_pre: cert_free(p.res); X509_free(x);
\* return NULL
\* no X509 object: d2i_X509 was not called or returned NULL
NoObject == [exists |-> FALSE, frees |-> 0]

\* n calls of X509_free on the object; X509_free(NULL) does nothing
X509_free(o, n) == [o EXCEPT !.frees = IF o.exists THEN @ + n ELSE @]

\* cert_free as if it released the record without its X509 object
cert_free_leaks_x509(p) == 0

\* the calls of X509_free on the object that cert_free(p) makes: none for
\* p = NULL and for a record with x509 = NULL, else its X509_free(p->x509)
cert_free_x509(p) ==
    IF p = FREED THEN 0
    ELSE IF p.x509.present THEN 1
    ELSE 0

Reject(d) ==
    /\ pc' = "rejected"
    /\ res' = FREED
    /\ xobj' = X509_free(X509_free(xobj, cert_free_x509(res)), 1)
    /\ diag' = d
    /\ sia_present' = FALSE
    /\ afi' = NoAfi

\* a decoding step whose failure is passed over
ContinueAnyway(ret, to) ==
    /\ pc' = to
    /\ res' = ret.res
    /\ diag' = ret.diag
    /\ UNCHANGED <<sia_present, afi, xobj>>

\* a decoding step that returned ret: go on at pc value to, or fail the parse
Continue(ret, to) ==
    IF ret.rc = 1
    THEN /\ pc' = to
         /\ res' = ret.res
         /\ diag' = ""
         /\ UNCHANGED <<sia_present, afi, xobj>>
    ELSE Reject(ret.diag)

\* entry of cert_parse_pre: a NULL buffer returns at once, otherwise the
\* record is allocated and d2i_X509 decodes the certificate or fails
ParseBegin(der) ==
    /\ pc \in {"start", "rejected", "cert_bad", "ta_bad", "freed"}
    /\ last' = In("ParseBegin", [der |-> der])
    /\ sia_present' = FALSE
    /\ afi' = NoAfi
    /\ UNCHANGED <<buf, rd, indexVars, otherVars>>
    /\ CASE der = "NULL" ->
              /\ pc' = "rejected"
              /\ res' = FREED
              /\ diag' = "der == NULL"
              /\ xobj' = NoObject
         [] der = "garbage" ->
              /\ pc' = "rejected"
              /\ res' = FREED
              /\ diag' = "d2i_X509"
              /\ xobj' = X509_free(NoObject, cert_free_x509(EmptyCert))
         [] OTHER ->
              /\ pc' = "exts"
              /\ res' = EmptyCert
              /\ diag' = ""
              /\ xobj' = [exists |-> TRUE, frees |-> 0]

\* case NID_sbgp_autonomousSysNum: sbgp_assysnum up to its loop
ExtAsBegin(ext) ==
    /\ pc = "exts"
    /\ last' = In("ExtAsBegin", ext)
    /\ UNCHANGED <<buf, rd, indexVars, otherVars>>
    /\ IF ~ ext.critical THEN Reject("autonomousSysNum: extension not critical")
       ELSE IF ext.frame # "" THEN Reject(ext.frame)
       ELSE Continue(Ret(1, res, ""), "sbgp_assysnum")

\* the iteration as if an RDI element were decoded like an AS-number element
AsElemStepDecodeRdi(t) ==
    /\ pc = "sbgp_assysnum"
    /\ last' = In("AsElemStep", t)
    /\ UNCHANGED <<buf, rd, indexVars, otherVars>>
    /\ IF t.type # "OTHER" THEN Reject("ASIdentifiers: want ASN.1 explicit")
       ELSE IF ~ t.frame_ok THEN Reject("ASN1_frame")
       ELSE IF t.ptag > ASID_TYPE_MAX THEN Reject("ASIdentifiers: unknown explicit tag")
       ELSE IF ~ t.t_ok THEN Reject("ASIdentifierChoice: failed ASN.1 type parse")
       ELSE CASE t.ttype = "NULL" -> Continue(append_as(res, AsInherit), "sbgp_assysnum")
              [] t.ttype = "SEQUENCE" ->
                    IF ~ t.seq_ok
                    THEN Reject("ASIdentifierChoice: failed ASN.1 sequence parse")
                    ELSE Continue(Ret(1, res, ""), "sbgp_asnum")
              [] OTHER -> Reject("ASIdentifierChoice: want ASN.1 sequence or null")

\* one iteration of the loop of sbgp_assysnum, with the part of sbgp_asnum
\* that precedes its own loop
AsElemStep(t) ==
    /\ pc = "sbgp_assysnum"
    /\ last' = In("AsElemStep", t)
    /\ UNCHANGED <<buf, rd, indexVars, otherVars>>
    /\ IF t.type # "OTHER" THEN Reject("ASIdentifiers: want ASN.1 explicit")
       ELSE IF ~ t.frame_ok THEN Reject("ASN1_frame")
       ELSE IF t.ptag > ASID_TYPE_MAX THEN Reject("ASIdentifiers: unknown explicit tag")
       ELSE IF t.ptag = ASID_TYPE_RDI THEN Continue(Ret(1, res, ""), "sbgp_assysnum")
       ELSE IF ~ t.t_ok THEN Reject("ASIdentifierChoice: failed ASN.1 type parse")
       ELSE CASE t.ttype = "NULL" -> Continue(append_as(res, AsInherit), "sbgp_assysnum")
              [] t.ttype = "SEQUENCE" ->
                    IF ~ t.seq_ok
                    THEN Reject("ASIdentifierChoice: failed ASN.1 sequence parse")
                    ELSE Continue(Ret(1, res, ""), "sbgp_asnum")
              [] OTHER -> Reject("ASIdentifierChoice: want ASN.1 sequence or null")

\* one iteration of the loop of sbgp_asnum
AsItemStep(tt) ==
    /\ pc = "sbgp_asnum"
    /\ last' = In("AsItemStep", tt)
    /\ UNCHANGED <<buf, rd, indexVars, otherVars>>
    /\ Continue(sbgp_asnum_item(res, tt), "sbgp_asnum")

\* the loop of sbgp_asnum ends: rc = 1, back in the loop of sbgp_assysnum
AsItemsEnd ==
    /\ pc = "sbgp_asnum"
    /\ last' = In("AsItemsEnd", NoInput)
    /\ UNCHANGED <<buf, rd, indexVars, otherVars>>
    /\ Continue(Ret(1, res, ""), "sbgp_assysnum")

\* the loop of sbgp_assysnum ends: rc = 1, back in cert_parse_pre
AsElemsEnd ==
    /\ pc = "sbgp_assysnum"
    /\ last' = In("AsElemsEnd", NoInput)
    /\ UNCHANGED <<buf, rd, indexVars, otherVars>>
    /\ Continue(Ret(1, res, ""), "exts")

\* case NID_sbgp_ipAddrBlock: sbgp_ipaddrblk up to its loop
ExtIpBegin(ext) ==
    /\ pc = "exts"
    /\ last' = In("ExtIpBegin", ext)
    /\ UNCHANGED <<buf, rd, indexVars, otherVars>>
    /\ IF ~ ext.critical THEN Reject("sbgp-ipAddrBlock: extension not critical")
       ELSE IF ext.frame # "" THEN Reject(ext.frame)
       ELSE Continue(Ret(1, res, ""), "sbgp_ipaddrblk")

\* one iteration of the loop of sbgp_ipaddrblk, with the part of
\* sbgp_ipaddrfam and sbgp_addr_or_range that precedes the loop over the items
IpFamStep(t) ==
    /\ pc = "sbgp_ipaddrblk"
    /\ last' = In("IpFamStep", t)
    /\ UNCHANGED <<buf, rd, indexVars, otherVars>>
    /\ IF t.type # "SEQUENCE" THEN Reject("IPAddressFamily: want ASN.1 sequence")
       ELSE IF ~ t.d2i_ok THEN Reject("IPAddressFamily: failed ASN.1 sequence parse")
       ELSE IF t.num # 2 THEN Reject("IPAddressFamily: want 2 elements")
       ELSE IF t.aftype # "OCTET_STRING" THEN Reject("addressFamily: want ASN.1 octet string")
       ELSE IF t.afi \notin {AFI_IPV4, AFI_IPV6} THEN Reject("addressFamily: invalid AFI")
       ELSE CASE t.choice = "SEQUENCE" ->
                    IF ~ t.seq_ok
                    THEN Reject("IPAddressOrRange: failed ASN.1 sequence parse")
                    ELSE /\ pc' = "sbgp_addr_or_range"
                         /\ afi' = t.afi
                         /\ diag' = ""
                         /\ UNCHANGED <<res, sia_present, xobj>>
              [] t.choice = "NULL" ->
                    Continue(append_ip(res, IpInherit(t.afi)), "sbgp_ipaddrblk")
              [] OTHER -> Reject("IPAddressChoice: want ASN.1 sequence or null")

\* one iteration of the loop of sbgp_addr_or_range
IpItemStep(t) ==
    /\ pc = "sbgp_addr_or_range"
    /\ last' = In("IpItemStep", t)
    /\ UNCHANGED <<buf, rd, indexVars, otherVars>>
    /\ Continue(sbgp_addr_or_range_item(res, afi, t), "sbgp_addr_or_range")

\* the loop of sbgp_addr_or_range ends: rc = 1 through sbgp_ipaddrfam, back
\* in the loop of sbgp_ipaddrblk
IpItemsEnd ==
    /\ pc = "sbgp_addr_or_range"
    /\ last' = In("IpItemsEnd", NoInput)
    /\ pc' = "sbgp_ipaddrblk"
    /\ afi' = NoAfi
    /\ diag' = ""
    /\ UNCHANGED <<res, sia_present, xobj, buf, rd, indexVars, otherVars>>

\* the loop of sbgp_ipaddrblk ends: rc = 1, back in cert_parse_pre
IpFamsEnd ==
    /\ pc = "sbgp_ipaddrblk"
    /\ last' = In("IpFamsEnd", NoInput)
    /\ UNCHANGED <<buf, rd, indexVars, otherVars>>
    /\ Continue(Ret(1, res, ""), "exts")

\* sbgp_sia as if it did not look at the critical flag
ExtSiaBeginAnyFlag(ext) ==
    /\ pc = "exts"
    /\ last' = In("ExtSiaBegin", ext)
    /\ UNCHANGED <<buf, rd, indexVars, otherVars>>
    /\ IF ext.frame # "" THEN Reject("SIA: failed extension parse")
       ELSE /\ pc' = "sbgp_sia"
            /\ sia_present' = TRUE
            /\ diag' = ""
            /\ UNCHANGED <<res, afi, xobj>>

\* case NID_sinfo_access: sia_present is raised, then sbgp_sia up to its loop
ExtSiaBegin(ext) ==
    /\ pc = "exts"
    /\ last' = In("ExtSiaBegin", ext)
    /\ UNCHANGED <<buf, rd, indexVars, otherVars>>
    /\ IF ext.critical THEN Reject("SIA: extension not non-critical")
       ELSE IF ext.frame # "" THEN Reject("SIA: failed extension parse")
       ELSE /\ pc' = "sbgp_sia"
            /\ sia_present' = TRUE
            /\ diag' = ""
            /\ UNCHANGED <<res, afi, xobj>>

\* one iteration of the loop of sbgp_sia
SiaAdStep(ad) ==
    /\ pc = "sbgp_sia"
    /\ last' = In("SiaAdStep", ad)
    /\ UNCHANGED <<buf, rd, indexVars, otherVars>>
    /\ Continue(sbgp_sia_ad(res, ad), "sbgp_sia")

\* the loop of sbgp_sia ends and its closing checks run
SiaEnd ==
    /\ pc = "sbgp_sia"
    /\ last' = In("SiaEnd", NoInput)
    /\ UNCHANGED <<buf, rd, indexVars, otherVars>>
    /\ Continue(sbgp_sia_end(res), "exts")

\* case NID_certificate_policies
ExtCertPol(ext) ==
    /\ pc = "exts"
    /\ last' = In("ExtCertPol", ext)
    /\ UNCHANGED <<buf, rd, indexVars, otherVars>>
    /\ Continue(Ret(IF certificate_policies(ext) = "" THEN 1 ELSE 0, res,
                    certificate_policies(ext)), "exts")

\* the walk as if its default case failed the certificate
ExtIgnoredStrict(nid) ==
    /\ pc = "exts"
    /\ last' = In("ExtIgnored", [nid |-> nid])
    /\ UNCHANGED <<buf, rd, indexVars, otherVars>>
    /\ IF nid = "undef" THEN Reject("unknown extension")
       ELSE Continue(Ret(1, res, ""), "exts")

\* the cases of the switch that only break, and its default
ExtIgnored(nid) ==
    /\ pc = "exts"
    /\ last' = In("ExtIgnored", [nid |-> nid])
    /\ UNCHANGED <<buf, rd, indexVars, otherVars>>
    /\ Continue(Ret(1, res, ""), "exts")

-----------------------------------------------------------------------------
(* cert_parse_pre: the fields taken from the certificate, and the rules *)

SkiA == <<10>>
SkiB == <<10, 11>>
Key1 == <<20, 21>>
Key2 == <<20, 22>>

\* What the x509_get_* extractors (x509.c) make of the certificate: for
\* each field whether the extractor succeeds and what it yields; pubkey is
\* the certificate's public key, NULL if none can be extracted.
\* x509_get_expire yields notAfter.
X509Ok ==
    [aki_ok : {TRUE}, aki : {NULL, SkiA, SkiB}, ski_ok : {TRUE}, ski : {NULL, SkiA},
     aia_ok : {TRUE}, aia : {NULL, AiaUri}, crl_ok : {TRUE}, crl : {NULL, CrlUri},
     exp_ok : {TRUE}, notBefore : {1}, notAfter : {MaxTime - 1, MaxTime},
     purpose : {CERT_PURPOSE_CA, CERT_PURPOSE_BGPSEC_ROUTER, CERT_PURPOSE_INVALID},
     pubkey : {NULL, Key1}]

X509Plain ==
    [aki_ok |-> TRUE, aki |-> SkiB, ski_ok |-> TRUE, ski |-> SkiA,
     aia_ok |-> TRUE, aia |-> AiaUri, crl_ok |-> TRUE, crl |-> CrlUri,
     exp_ok |-> TRUE, notBefore |-> 1, notAfter |-> MaxTime,
     purpose |-> CERT_PURPOSE_CA, pubkey |-> Key1]

X509Failing ==
    {[X509Plain EXCEPT !.aki_ok = FALSE], [X509Plain EXCEPT !.ski_ok = FALSE],
     [X509Plain EXCEPT !.aia_ok = FALSE], [X509Plain EXCEPT !.crl_ok = FALSE],
     [X509Plain EXCEPT !.exp_ok = FALSE]}

X509Few ==
    {[X509Plain EXCEPT !.purpose = p] :
        p \in {CERT_PURPOSE_CA, CERT_PURPOSE_BGPSEC_ROUTER, CERT_PURPOSE_INVALID}}

\* The fields offered with the resources decoded so far: every combination
\* for a record of at most one resource entry, the plain fields under each
\* purpose for a record of several
X509s ==
    IF pc # "exts" THEN {}
    ELSE X509Failing \cup (IF Len(res.ips) + Len(res.as) <= 1 THEN X509Ok ELSE X509Few)

\* the record once the extractors have stored their fields
WithFields(r, x) ==
    [r EXCEPT !.aki = x.aki, !.ski = x.ski, !.aia = x.aia, !.crl = x.crl,
              !.expires = x.notAfter, !.purpose = x.purpose,
              !.pubkey = IF x.purpose = CERT_PURPOSE_BGPSEC_ROUTER
                         THEN x.pubkey ELSE NULL]

\* p.res->x509 = x
WithX509(r, x) ==
    [r EXCEPT !.x509 = [present |-> TRUE, notBefore |-> x.notBefore,
                        notAfter |-> x.notAfter, pubkey |-> x.pubkey]]

\* cert_parse_pre after its loop: "" if the certificate is accepted,
\* otherwise the check that fails
\* cert_parse_pre without the check for empty resources of a CA
cert_parse_pre_rules_empty_ca(r, sia, x) ==
    IF ~ x.aki_ok THEN "x509_get_aki"
    ELSE IF ~ x.ski_ok THEN "x509_get_ski"
    ELSE IF ~ x.aia_ok THEN "x509_get_aia"
    ELSE IF ~ x.crl_ok THEN "x509_get_crl"
    ELSE IF ~ x.exp_ok THEN "x509_get_expire"
    ELSE IF x.purpose = CERT_PURPOSE_CA /\ r.mft = NULL THEN "missing SIA"
    ELSE IF x.purpose = CERT_PURPOSE_BGPSEC_ROUTER /\ x.pubkey = NULL
    THEN "x509_get_pubkey failed"
    ELSE IF x.purpose = CERT_PURPOSE_BGPSEC_ROUTER /\ Len(r.ips) > 0
    THEN "unexpected IP resources in BGPsec cert"
    ELSE IF x.purpose = CERT_PURPOSE_BGPSEC_ROUTER /\ sia
    THEN "unexpected SIA extension in BGPsec cert"
    ELSE IF x.purpose \notin {CERT_PURPOSE_CA, CERT_PURPOSE_BGPSEC_ROUTER}
    THEN "x509_get_purpose failed"
    ELSE IF x.ski = NULL THEN "missing SKI"
    ELSE ""

\* cert_parse_pre without the check for a missing SKI
cert_parse_pre_rules_no_ski(r, sia, x) ==
    IF ~ x.aki_ok THEN "x509_get_aki"
    ELSE IF ~ x.ski_ok THEN "x509_get_ski"
    ELSE IF ~ x.aia_ok THEN "x509_get_aia"
    ELSE IF ~ x.crl_ok THEN "x509_get_crl"
    ELSE IF ~ x.exp_ok THEN "x509_get_expire"
    ELSE IF x.purpose = CERT_PURPOSE_CA /\ r.mft = NULL THEN "missing SIA"
    ELSE IF x.purpose = CERT_PURPOSE_CA /\ Len(r.as) = 0 /\ Len(r.ips) = 0
    THEN "missing IP or AS resources"
    ELSE IF x.purpose = CERT_PURPOSE_BGPSEC_ROUTER /\ x.pubkey = NULL
    THEN "x509_get_pubkey failed"
    ELSE IF x.purpose = CERT_PURPOSE_BGPSEC_ROUTER /\ Len(r.ips) > 0
    THEN "unexpected IP resources in BGPsec cert"
    ELSE IF x.purpose = CERT_PURPOSE_BGPSEC_ROUTER /\ sia
    THEN "unexpected SIA extension in BGPsec cert"
    ELSE IF x.purpose \notin {CERT_PURPOSE_CA, CERT_PURPOSE_BGPSEC_ROUTER}
    THEN "x509_get_purpose failed"
    ELSE ""

\* cert_parse_pre without the check for IP resources of a router certificate
cert_parse_pre_rules_router_ips(r, sia, x) ==
    IF ~ x.aki_ok THEN "x509_get_aki"
    ELSE IF ~ x.ski_ok THEN "x509_get_ski"
    ELSE IF ~ x.aia_ok THEN "x509_get_aia"
    ELSE IF ~ x.crl_ok THEN "x509_get_crl"
    ELSE IF ~ x.exp_ok THEN "x509_get_expire"
    ELSE IF x.purpose = CERT_PURPOSE_CA /\ r.mft = NULL THEN "missing SIA"
    ELSE IF x.purpose = CERT_PURPOSE_CA /\ Len(r.as) = 0 /\ Len(r.ips) = 0
    THEN "missing IP or AS resources"
    ELSE IF x.purpose = CERT_PURPOSE_BGPSEC_ROUTER /\ x.pubkey = NULL
    THEN "x509_get_pubkey failed"
    ELSE IF x.purpose = CERT_PURPOSE_BGPSEC_ROUTER /\ sia
    THEN "unexpected SIA extension in BGPsec cert"
    ELSE IF x.purpose \notin {CERT_PURPOSE_CA, CERT_PURPOSE_BGPSEC_ROUTER}
    THEN "x509_get_purpose failed"
    ELSE IF x.ski = NULL THEN "missing SKI"
    ELSE ""

cert_parse_pre_rules(r, sia, x) ==
    IF ~ x.aki_ok THEN "x509_get_aki"
    ELSE IF ~ x.ski_ok THEN "x509_get_ski"
    ELSE IF ~ x.aia_ok THEN "x509_get_aia"
    ELSE IF ~ x.crl_ok THEN "x509_get_crl"
    ELSE IF ~ x.exp_ok THEN "x509_get_expire"
    ELSE IF x.purpose = CERT_PURPOSE_CA /\ r.mft = NULL THEN "missing SIA"
    ELSE IF x.purpose = CERT_PURPOSE_CA /\ Len(r.as) = 0 /\ Len(r.ips) = 0
    THEN "missing IP or AS resources"
    ELSE IF x.purpose = CERT_PURPOSE_BGPSEC_ROUTER /\ x.pubkey = NULL
    THEN "x509_get_pubkey failed"
    ELSE IF x.purpose = CERT_PURPOSE_BGPSEC_ROUTER /\ Len(r.ips) > 0
    THEN "unexpected IP resources in BGPsec cert"
    ELSE IF x.purpose = CERT_PURPOSE_BGPSEC_ROUTER /\ sia
    THEN "unexpected SIA extension in BGPsec cert"
    ELSE IF x.purpose \notin {CERT_PURPOSE_CA, CERT_PURPOSE_BGPSEC_ROUTER}
    THEN "x509_get_purpose failed"
    ELSE IF x.ski = NULL THEN "missing SKI"
    ELSE ""

\* the loop over the extensions ends; the fields are extracted, the rules
\* applied, and the record is returned or released
Finish(x) ==
    /\ pc = "exts"
    /\ last' = In("Finish", x)
    /\ UNCHANGED <<buf, rd, indexVars, otherVars>>
    /\ IF cert_parse_pre_rules(res, sia_present, x) = ""
       THEN /\ pc' = "accepted"
            /\ res' = WithX509(WithFields(res, x), x)
            /\ diag' = ""
            /\ UNCHANGED <<sia_present, afi, xobj>>
       ELSE Reject(cert_parse_pre_rules(res, sia_present, x))

-----------------------------------------------------------------------------
(* cert_parse, ta_parse, cert_free *)

\* cert_parse without the comparison of AKI and SKI
cert_parse_self_signed(p) ==
    IF p.aki = NULL THEN "non-trust anchor missing AKI"
    ELSE IF p.aia = NULL THEN "AIA: extension missing"
    ELSE IF p.crl = NULL THEN "CRL: no CRL distribution point extension"
    ELSE ""

\* cert_parse: "" if the record is returned, otherwise the check that fails
cert_parse(p) ==
    IF p.aki = NULL THEN "non-trust anchor missing AKI"
    ELSE IF strcmp(p.aki, p.ski) = 0 THEN "non-trust anchor AKI may not match SKI"
    ELSE IF p.aia = NULL THEN "AIA: extension missing"
    ELSE IF p.crl = NULL THEN "CRL: no CRL distribution point extension"
    ELSE ""

\* X509_cmp_current_time (libcrypto): -1 if the date is not later than the
\* clock, 1 if it is later
X509_cmp_current_time(t, now) == IF t <= now THEN -1 ELSE 1

\* the trust anchor locator's key: d2i_PUBKEY decodes it or not
TalKeys == {[d2i_ok |-> FALSE, key |-> NULL], [d2i_ok |-> TRUE, key |-> Key1],
            [d2i_ok |-> TRUE, key |-> Key2]}

\* ta_parse without the check that forbids AIA
ta_parse_with_aia(p, pkey, now) ==
    IF ~ pkey.d2i_ok THEN "bad TAL pubkey"
    ELSE IF p.x509.pubkey = NULL THEN "missing pubkey"
    ELSE IF pkey.key # p.x509.pubkey THEN "pubkey does not match TAL pubkey"
    ELSE IF X509_cmp_current_time(p.x509.notBefore, now) # -1
    THEN "certificate not yet valid"
    ELSE IF X509_cmp_current_time(p.x509.notAfter, now) # 1
    THEN "certificate has expired"
    ELSE IF p.aki # NULL /\ strcmp(p.aki, p.ski) # 0
    THEN "trust anchor AKI, if specified, must match SKI"
    ELSE IF p.crl # NULL THEN "trust anchor may not specify CRL resource"
    ELSE IF p.purpose = CERT_PURPOSE_BGPSEC_ROUTER
    THEN "BGPsec cert cannot be a trust anchor"
    ELSE ""

\* ta_parse: "" if the record is returned, otherwise the check that fails
ta_parse(p, pkey, now) ==
    IF ~ pkey.d2i_ok THEN "bad TAL pubkey"
    ELSE IF p.x509.pubkey = NULL THEN "missing pubkey"
    ELSE IF pkey.key # p.x509.pubkey THEN "pubkey does not match TAL pubkey"
    ELSE IF X509_cmp_current_time(p.x509.notBefore, now) # -1
    THEN "certificate not yet valid"
    ELSE IF X509_cmp_current_time(p.x509.notAfter, now) # 1
    THEN "certificate has expired"
    ELSE IF p.aki # NULL /\ strcmp(p.aki, p.ski) # 0
    THEN "trust anchor AKI, if specified, must match SKI"
    ELSE IF p.aia # NULL THEN "trust anchor must not have AIA"
    ELSE IF p.crl # NULL THEN "trust anchor may not specify CRL resource"
    ELSE IF p.purpose = CERT_PURPOSE_BGPSEC_ROUTER
    THEN "BGPsec cert cannot be a trust anchor"
    ELSE ""

\* the record goes to cert_parse; it comes back as it is, or is released
CertParse ==
    /\ pc = "accepted"
    /\ last' = In("CertParse", NoInput)
    /\ diag' = cert_parse(res)
    /\ IF cert_parse(res) = ""
       THEN pc' = "cert_ok" /\ res' = res /\ xobj' = xobj
       ELSE /\ pc' = "cert_bad"
            /\ res' = FREED
            /\ xobj' = X509_free(xobj, cert_free_x509(res))
    /\ UNCHANGED <<sia_present, afi, buf, rd, indexVars, otherVars>>

\* the record goes to ta_parse with the locator's key, at clock value now
TaParse(pkey, now) ==
    /\ pc = "accepted"
    /\ last' = In("TaParse", [pkey |-> pkey, now |-> now])
    /\ diag' = ta_parse(res, pkey, now)
    /\ IF ta_parse(res, pkey, now) = ""
       THEN pc' = "ta_ok" /\ res' = res /\ xobj' = xobj
       ELSE /\ pc' = "ta_bad"
            /\ res' = FREED
            /\ xobj' = X509_free(xobj, cert_free_x509(res))
    /\ UNCHANGED <<sia_present, afi, buf, rd, indexVars, otherVars>>

\* cert_free on a record the caller holds
CertFree ==
    /\ pc \in {"accepted", "cert_ok", "ta_ok", "read"}
    /\ last' = In("CertFree", NoInput)
    /\ pc' = "freed"
    /\ res' = FREED
    /\ diag' = ""
    /\ sia_present' = FALSE
    /\ afi' = NoAfi
    /\ buf' = NoBuf
    /\ rd' = FREED
    /\ xobj' = X509_free(X509_free(xobj, cert_free_x509(res)), cert_free_x509(rd))
    /\ UNCHANGED <<indexVars, otherVars>>

-----------------------------------------------------------------------------
(* cert_buffer and cert_read *)

\* The buffer is a sequence of cells.  io_simple_buffer / io_read_buf (io.c)
\* copy a fixed-width field as it is, one cell per scalar; io_str_buffer
\* writes the length of the string (0 for NULL) and then its characters;
\* io_read_str reads the length and that many characters, and yields NULL
\* for the length 0.
io_str_buffer(str) == IF str = NULL THEN <<0>> ELSE <<Len(str)>> \o str

io_read_str(b, pos) ==
    [str |-> IF b[pos] = 0 THEN NULL ELSE SubSeq(b, pos + 1, pos + b[pos]),
     next |-> pos + 1 + b[pos]]

\* the raw array p->ips / p->as, four cells per entry
RECURSIVE IpCells(_)
IpCells(ips) ==
    IF ips = << >> THEN << >>
    ELSE <<Head(ips).afi, Head(ips).type, Head(ips).min, Head(ips).max>>
         \o IpCells(Tail(ips))

RECURSIVE AsCells(_)
AsCells(as) ==
    IF as = << >> THEN << >>
    ELSE <<Head(as).type, Head(as).id, Head(as).min, Head(as).max>>
         \o AsCells(Tail(as))

IpFromCells(b, pos, n) ==
    [i \in 1..n |-> IpEntry(b[pos + 4 * (i - 1)], b[pos + 4 * (i - 1) + 1],
                            b[pos + 4 * (i - 1) + 2], b[pos + 4 * (i - 1) + 3])]

AsFromCells(b, pos, n) ==
    [i \in 1..n |-> [type |-> b[pos + 4 * (i - 1)], id |-> b[pos + 4 * (i - 1) + 1],
                     min |-> b[pos + 4 * (i - 1) + 2], max |-> b[pos + 4 * (i - 1) + 3]]]

cert_buffer(p) ==
    <<p.expires, p.purpose, p.talid, Len(p.ips), Len(p.as)>>
    \o IpCells(p.ips) \o AsCells(p.as)
    \o io_str_buffer(p.mft) \o io_str_buffer(p.notify) \o io_str_buffer(p.repo)
    \o io_str_buffer(p.crl) \o io_str_buffer(p.aia) \o io_str_buffer(p.aki)
    \o io_str_buffer(p.ski) \o io_str_buffer(p.pubkey)

\* cert_read with the locators read in another order than cert_buffer
\* writes them
cert_read_misordered(b) ==
    LET ipsz == b[4]
        asz == b[5]
        repo == io_read_str(b, 6 + 4 * ipsz + 4 * asz)
        notify == io_read_str(b, repo.next)
        mft == io_read_str(b, notify.next)
        crl == io_read_str(b, mft.next)
        aia == io_read_str(b, crl.next)
        aki == io_read_str(b, aia.next)
        ski == io_read_str(b, aki.next)
        pubkey == io_read_str(b, ski.next)
    IN  [ips |-> IpFromCells(b, 6, ipsz), as |-> AsFromCells(b, 6 + 4 * ipsz, asz),
         repo |-> repo.str, mft |-> mft.str, notify |-> notify.str,
         crl |-> crl.str, aia |-> aia.str, aki |-> aki.str, ski |-> ski.str,
         talid |-> b[3], purpose |-> b[2], pubkey |-> pubkey.str,
         expires |-> b[1], x509 |-> NoX509]

\* the record cert_read builds (before its assertions)
cert_read(b) ==
    LET ipsz == b[4]
        asz == b[5]
        mft == io_read_str(b, 6 + 4 * ipsz + 4 * asz)
        notify == io_read_str(b, mft.next)
        repo == io_read_str(b, notify.next)
        crl == io_read_str(b, repo.next)
        aia == io_read_str(b, crl.next)
        aki == io_read_str(b, aia.next)
        ski == io_read_str(b, aki.next)
        pubkey == io_read_str(b, ski.next)
    IN  [ips |-> IpFromCells(b, 6, ipsz), as |-> AsFromCells(b, 6 + 4 * ipsz, asz),
         repo |-> repo.str, mft |-> mft.str, notify |-> notify.str,
         crl |-> crl.str, aia |-> aia.str, aki |-> aki.str, ski |-> ski.str,
         talid |-> b[3], purpose |-> b[2], pubkey |-> pubkey.str,
         expires |-> b[1], x509 |-> NoX509]

\* cert_read as if it asserted the SKI only
cert_read_asserts_ski_only(p) == p.ski # NULL

\* the assertions that end cert_read
cert_read_asserts(p) ==
    /\ p.mft # NULL \/ p.purpose = CERT_PURPOSE_BGPSEC_ROUTER
    /\ p.ski # NULL

\* records of any content, as a caller of cert_buffer may hold them without
\* having them from cert_parse_pre (x509 is NULL then)
AnyCerts ==
    {[EmptyCert EXCEPT !.ski = k, !.mft = m, !.repo = rp, !.purpose = pu,
                       !.pubkey = pk, !.ips = ips, !.as = as] :
        k \in {NULL, SkiA}, m \in {NULL, MftUri}, rp \in {NULL, RepoUri},
        pu \in {CERT_PURPOSE_CA, CERT_PURPOSE_BGPSEC_ROUTER},
        pk \in {NULL, Key1},
        ips \in {<< >>, <<IpInherit(AFI_IPV4)>>},
        as \in {<< >>, <<AsId(1)>>}}

\* cert_buffer writes the record the caller holds
CertBuffer ==
    /\ pc \in {"accepted", "cert_ok", "ta_ok", "held"}
    /\ last' = In("CertBuffer", NoInput)
    /\ pc' = "buffered"
    /\ buf' = cert_buffer(res)
    /\ diag' = ""
    /\ UNCHANGED <<res, sia_present, afi, rd, xobj, indexVars, otherVars>>

\* cert_read on the bytes cert_buffer wrote; a failed assertion aborts
CertRead ==
    /\ pc = "buffered"
    /\ last' = In("CertRead", NoInput)
    /\ IF cert_read_asserts(cert_read(buf))
       THEN /\ pc' = "read"
            /\ rd' = cert_read(buf)
            /\ diag' = ""
            /\ UNCHANGED fatal
       ELSE /\ pc' = "aborted"
            /\ rd' = FREED
            /\ diag' = "cert_read: assertion failed"
            /\ fatal' = TRUE
    /\ UNCHANGED <<res, sia_present, afi, buf, xobj, auths, brks, brklog, otherVars>>

-----------------------------------------------------------------------------
(* The trust index (auth_tree) and the router-key index (brk_tree) *)

\* at most this many insert_brk calls are made before cert_insert_brks is
\* no longer offered
MaxBrkCalls == 3

\* sys/tree.h: the tree is held as the sequence of its elements in cmp order;
\* c[i] is cmp(elm, tree[i]). RB_FIND gives the position of the element that
\* compares equal, 0 for NULL.
RB_FIND(tree, c) ==
    IF \E i \in 1..Len(tree) : c[i] = 0
    THEN CHOOSE i \in 1..Len(tree) : c[i] = 0
    ELSE 0

\* RB_INSERT links elm in unless an element compares equal to it; found is
\* the position of that element, 0 for NULL.
RB_INSERT(tree, elm, c) ==
    LET found == RB_FIND(tree, c)
        below == Cardinality({i \in 1..Len(tree) : c[i] > 0})
    IN  IF found # 0
        THEN [found |-> found, tree |-> tree]
        ELSE [found |-> 0,
              tree  |-> SubSeq(tree, 1, below) \o <<elm>>
                        \o SubSeq(tree, below + 1, Len(tree))]

\* a root has no parent
NoParent == [none |-> TRUE]

authcmp(a, b) == strcmp(a.cert.ski, b.cert.ski)

\* auth_find as if it compared the first character only
auth_find_first_char(tree, aki) ==
    IF \E i \in 1..Len(tree) : Head(tree[i].cert.ski) = Head(aki)
    THEN CHOOSE i \in 1..Len(tree) : Head(tree[i].cert.ski) = Head(aki)
    ELSE 0

\* auth_find: the node whose certificate's SKI equals aki, 0 for NULL
auth_find(tree, aki) ==
    LET a == [cert |-> [ski |-> aki]]
    IN  RB_FIND(tree, [i \in 1..Len(tree) |-> authcmp(a, tree[i])])

\* auth_insert as if RB_INSERT's result were ignored
auth_insert_silent(tree, cert, parent) ==
    LET na == [cert |-> cert, parent |-> parent]
    IN  [tree |-> RB_INSERT(tree, na, [i \in 1..Len(tree) |-> authcmp(na, tree[i])]).tree,
         err  |-> FALSE]

\* auth_insert as if it left the parent out of the new node
auth_insert_unlinked(tree, cert, parent) ==
    LET na == [cert |-> cert, parent |-> NoParent]
        ins == RB_INSERT(tree, na, [i \in 1..Len(tree) |-> authcmp(na, tree[i])])
    IN  IF ins.found # 0
        THEN [tree |-> tree, err |-> TRUE]
        ELSE [tree |-> ins.tree, err |-> FALSE]

\* a node's parent is the certificate of the node the caller handed in,
\* NoParent for NULL; err is the call of err(1, "auth tree corrupted")
auth_insert(tree, cert, parent) ==
    LET na == [cert |-> cert, parent |-> parent]
        ins == RB_INSERT(tree, na, [i \in 1..Len(tree) |-> authcmp(na, tree[i])])
    IN  IF ins.found # 0
        THEN [tree |-> tree, err |-> TRUE]
        ELSE [tree |-> ins.tree, err |-> FALSE]

\* conversions between uint32_t / size_t and int, at the scaled widths
ToInt(v) ==
    LET m == v % (2^AsnBits)
    IN  IF m >= 2^(AsnBits - 1) THEN m - 2^AsnBits ELSE m
ToUint32(i) == i % (2^AsnBits)
ToSizeT(i) == i % (2^(2 * AsnBits))

brkcmp(a, b) ==
    IF a.asid > b.asid THEN 1
    ELSE IF a.asid < b.asid THEN -1
    ELSE LET rv == strcmp(a.ski, b.ski)
         IN  IF rv > 0 THEN 1
             ELSE IF rv < 0 THEN -1
             ELSE strcmp(a.pubkey, b.pubkey)

\* the struct brk that insert_brk fills in; asid arrives as an int
NewBrk(cert, asid) ==
    [asid    |-> ToUint32(asid),
     expires |-> cert.expires,
     talid   |-> cert.talid,
     ski     |-> cert.ski,
     pubkey  |-> cert.pubkey]

\* insert_brk as if a found entry were left alone
insert_brk_keep_found(tree, cert, asid) ==
    LET b == NewBrk(cert, asid)
    IN  RB_INSERT(tree, b, [i \in 1..Len(tree) |-> brkcmp(b, tree[i])]).tree

\* insert_brk as if an equal expiry replaced the found entry's fields too
insert_brk_on_tie(tree, cert, asid) ==
    LET b == NewBrk(cert, asid)
        ins == RB_INSERT(tree, b, [i \in 1..Len(tree) |-> brkcmp(b, tree[i])])
        found == ins.found
    IN  IF found # 0
        THEN IF tree[found].expires <= b.expires
             THEN [tree EXCEPT ![found].expires = b.expires,
                               ![found].talid = b.talid]
             ELSE tree
        ELSE ins.tree

insert_brk(tree, cert, asid) ==
    LET b == NewBrk(cert, asid)
        ins == RB_INSERT(tree, b, [i \in 1..Len(tree) |-> brkcmp(b, tree[i])])
        found == ins.found
    IN  IF found # 0
        THEN IF tree[found].expires < b.expires
             THEN [tree EXCEPT ![found].expires = b.expires,
                               ![found].talid = b.talid]
             ELSE tree
        ELSE ins.tree

\* the loop as if it stopped before max
RECURSIVE RangeAsidsBelowMax(_, _)
RangeAsidsBelowMax(asid, max) ==
    IF asid < max
    THEN <<asid>> \o RangeAsidsBelowMax(ToSizeT(asid + 1), max)
    ELSE << >>

\* the values asid takes in the loop of the CERT_AS_RANGE case, a size_t
RECURSIVE RangeAsids(_, _)
RangeAsids(asid, max) ==
    IF asid <= max
    THEN <<asid>> \o RangeAsids(ToSizeT(asid + 1), max)
    ELSE << >>

\* the arguments of the insert_brk calls cert_insert_brks makes, in order
RECURSIVE BrkCalls(_, _)
BrkCalls(as, i) ==
    IF i > Len(as) THEN << >>
    ELSE (CASE as[i].type = CERT_AS_ID -> <<ToInt(as[i].id)>>
            [] as[i].type = CERT_AS_RANGE ->
                   LET ids == RangeAsids(ToSizeT(as[i].min), as[i].max)
                   IN  [k \in 1..Len(ids) |-> ToInt(ids[k])]
            [] OTHER -> << >>)
         \o BrkCalls(as, i + 1)

RECURSIVE InsertAll(_, _, _, _)
InsertAll(tree, cert, calls, k) ==
    IF k > Len(calls) THEN tree
    ELSE InsertAll(insert_brk(tree, cert, calls[k]), cert, calls, k + 1)

cert_insert_brks(tree, cert) ==
    InsertAll(tree, cert, BrkCalls(cert.as, 1), 1)

\* certificates handed to auth_insert: cert_parse_pre gave each an SKI
SkiC == <<12>>
AuthCerts ==
    {[EmptyCert EXCEPT !.ski = s, !.aki = a, !.purpose = CERT_PURPOSE_CA] :
        s \in {SkiA, SkiB, SkiC}, a \in {NULL, SkiA}}

\* BGPsec-router certificates handed to cert_insert_brks
BrkAsLists ==
    {<<AsId(1)>>, <<AsId(1), AsRange(UINT32_MAX - 1, UINT32_MAX)>>}
BrkCerts ==
    {[EmptyCert EXCEPT !.as = as, !.ski = k[1], !.pubkey = k[2],
                       !.expires = e, !.talid = k[3],
                       !.purpose = CERT_PURPOSE_BGPSEC_ROUTER] :
        as \in BrkAsLists,
        k \in {<<SkiA, Key1, 0>>, <<SkiA, Key1, 1>>,
               <<SkiA, Key2, 0>>, <<SkiB, Key1, 0>>},
        e \in 1..MaxTime}
    \cup {[EmptyCert EXCEPT !.as = <<AsInherit>>, !.ski = SkiA, !.pubkey = Key1,
                            !.expires = 1,
                            !.purpose = CERT_PURPOSE_BGPSEC_ROUTER]}

\* the caller hands in a node of the tree, or NULL
AuthParents == {NoParent} \cup {auths[i].cert : i \in 1..Len(auths)}

AuthInsert(cert, parent) ==
    /\ ~ fatal
    /\ LET r == auth_insert(auths, cert, parent)
       IN  /\ auths' = r.tree
           /\ fatal' = r.err
    /\ last' = In("AuthInsert", [cert |-> cert, parent |-> parent])
    /\ UNCHANGED <<pc, res, sia_present, afi, diag, buf, rd, xobj, brks, brklog, otherVars>>

\* keys looked up: the SKIs of the certificates and one no certificate has
SkiD == <<10, 11, 12>>
AuthAkis == {SkiA, SkiB, SkiC, SkiD}

\* a lookup; found is the node auth_find returns, NoParent for NULL
AuthFind(aki) ==
    /\ ~ fatal
    /\ LET f == auth_find(auths, aki)
       IN  last' = In("AuthFind",
                      [aki |-> aki,
                       found |-> IF f = 0 THEN NoParent ELSE auths[f]])
    /\ UNCHANGED <<pc, res, sia_present, afi, diag, buf, rd, xobj, indexVars, otherVars>>

\* certificates the validator hands on to the trust index: a trust anchor
\* has no AKI or its own SKI as AKI (ta_parse), any other certificate an AKI
\* that differs from its SKI (cert_parse)
TrustCerts ==
    {[EmptyCert EXCEPT !.ski = s, !.aki = a, !.purpose = CERT_PURPOSE_CA] :
        s \in {SkiA, SkiB, SkiC}, a \in {NULL, SkiA, SkiB, SkiC}}
IsRoot(cert) == cert.aki = NULL \/ strcmp(cert.aki, cert.ski) = 0

\* the validator inserts a trust anchor without parent
InsertRoot(cert) ==
    /\ IsRoot(cert)
    /\ AuthInsert(cert, NoParent)

\* the validator looks the issuer up by the certificate's AKI and inserts
\* the certificate with the entry found as parent
InsertSubordinate(cert) ==
    /\ ~ IsRoot(cert)
    /\ auth_find(auths, cert.aki) # 0
    /\ AuthInsert(cert, auths[auth_find(auths, cert.aki)].cert)

\* the validator finds no issuer and drops the certificate
DropOrphan(cert) ==
    /\ ~ fatal
    /\ ~ IsRoot(cert)
    /\ auth_find(auths, cert.aki) = 0
    /\ last' = In("DropOrphan", [cert |-> cert, parent |-> NoParent])
    /\ UNCHANGED <<pc, res, sia_present, afi, diag, buf, rd, xobj, indexVars, otherVars>>

CertInsertBrks(cert) ==
    /\ ~ fatal
    /\ Len(brklog) < MaxBrkCalls
    /\ brks' = cert_insert_brks(brks, cert)
    /\ brklog' = brklog \o
           LET calls == BrkCalls(cert.as, 1)
           IN  [k \in 1..Len(calls) |-> NewBrk(cert, calls[k])]
    /\ last' = In("CertInsertBrks",
                   [as |-> cert.as, ski |-> cert.ski, pubkey |-> cert.pubkey])
    /\ UNCHANGED <<pc, res, sia_present, afi, diag, buf, rd, xobj, auths, fatal, otherVars>>

-----------------------------------------------------------------------------
(* cert_insert_brks, one loop test or loop body at a time *)

\* cert_insert_brks is not running
NoFrame == [active |-> FALSE]

\* i and asid are size_t: as wide as the build makes them. OpenBSD builds
\* this code with a size_t of 32 bits (ILP32) and of 64 bits (LP64); the
\* identifiers are uint32_t in both.
SizeWidths == {AsnBits, 2 * AsnBits}

\* the count of insert_brk calls kept in the frame stops at this value,
\* which is more than any range holds
CountCap == 2^AsnBits + 1

\* router certificates whose AS lists hold a singleton, a range in the
\* middle of the list, a range that ends at the largest identifier, or an
\* inherit marker
LoopAsLists ==
    {<<AsId(1)>>,
     <<AsRange(1, 3), AsId(5)>>,
     <<AsId(1), AsRange(UINT32_MAX - 1, UINT32_MAX)>>,
     <<AsInherit>>}
LoopCerts ==
    {[EmptyCert EXCEPT !.as = as, !.ski = SkiA, !.pubkey = Key1, !.expires = 1,
                       !.purpose = CERT_PURPOSE_BGPSEC_ROUTER] :
        as \in LoopAsLists}

\* the call: i = 0; asid has no value yet and is not read before the
\* CERT_AS_RANGE case assigns it
CibCall(cert) ==
    /\ ~ fatal
    /\ ~ cib.active
    /\ cib' = [active |-> TRUE, cert |-> cert, i |-> 0, asid |-> 0,
               inner |-> FALSE, n |-> 0]
    /\ last' = In("CibCall", [as |-> cert.as])
    /\ UNCHANGED <<pc, res, sia_present, afi, diag, buf, rd, xobj, indexVars, size_w, restVars>>

\* `i < cert->asz` holds: the switch on the type of cert->as[i]
CibOuter ==
    /\ cib.active
    /\ ~ cib.inner
    /\ cib.i < Len(cib.cert.as)
    /\ LET e == cib.cert.as[cib.i + 1]
       IN  CASE e.type = CERT_AS_ID ->
                  /\ brks' = insert_brk(brks, cib.cert, ToInt(e.id))
                  /\ cib' = [cib EXCEPT !.i = (@ + 1) % (2^size_w)]
             [] e.type = CERT_AS_RANGE ->
                  /\ cib' = [cib EXCEPT !.asid = e.min, !.inner = TRUE, !.n = 0]
                  /\ UNCHANGED brks
             [] OTHER ->
                  /\ cib' = [cib EXCEPT !.i = (@ + 1) % (2^size_w)]
                  /\ UNCHANGED brks
    /\ last' = In("CibOuter", [i |-> cib.i])
    /\ UNCHANGED <<pc, res, sia_present, afi, diag, buf, rd, xobj, auths, brklog, fatal,
                   size_w, restVars>>

\* the test `asid <= cert->as[i].range.max` of the inner loop: its body and
\* asid++, which wraps at the width of a size_t, or the end of the inner loop
\* and i++
CibInner ==
    /\ cib.active
    /\ cib.inner
    /\ IF cib.asid <= cib.cert.as[cib.i + 1].max
       THEN /\ brks' = insert_brk(brks, cib.cert, ToInt(cib.asid))
            /\ cib' = [cib EXCEPT !.asid = (@ + 1) % (2^size_w),
                                  !.n = IF @ < CountCap THEN @ + 1 ELSE @]
       ELSE /\ cib' = [cib EXCEPT !.inner = FALSE, !.i = (@ + 1) % (2^size_w)]
            /\ UNCHANGED brks
    /\ last' = In("CibInner", [i |-> cib.i, asid |-> cib.asid, n |-> cib.n])
    /\ UNCHANGED <<pc, res, sia_present, afi, diag, buf, rd, xobj, auths, brklog, fatal,
                   size_w, restVars>>

\* `i < cert->asz` fails: cert_insert_brks returns
CibReturn ==
    /\ cib.active
    /\ ~ cib.inner
    /\ cib.i >= Len(cib.cert.as)
    /\ cib' = NoFrame
    /\ last' = In("CibReturn", [i |-> cib.i, as |-> cib.cert.as])
    /\ UNCHANGED <<pc, res, sia_present, afi, diag, buf, rd, xobj, indexVars, size_w, restVars>>

-----------------------------------------------------------------------------
(* sndiod (usr.bin/sndiod/sndiod.c): the signal handlers, setsig, unsetsig *)
(* and the main loop. Every statement of main that reads or writes a flag  *)
(* or a signal disposition is one step, and a signal may be delivered      *)
(* between any two of them; a handler runs with every signal blocked       *)
(* (sigfillset), so it is one step.                                        *)

MaxDevs == 2
MaxPorts == 1

Signals == {"SIGINT", "SIGTERM", "SIGHUP"}
NoSignal == ""

\* how the process stands: running, or the way it ended
Running == "running"
ExitBySigint == "_exit(1) in sigint"
ExitByMain == "exit(1) in main"
ReturnedFromMain == "return 0 from main"
KilledBySignal == "terminated by signal"

\* the latest step: what it was, and the signal it delivered
SigEv(op, s) == [op |-> op, sig |-> s]

\* what the certificate core and the state list are to sndiod
nonSigVars == <<certVars, indexVars, loopVars, pfVars>>

\* the statements of main between setsig and the loop, the loop itself
\* and what follows it
InSetsig == {"setsig_int", "setsig_term", "setsig_hup"}
InLoop == {"loop", "test_reopen", "clear_reopen", "reopen", "test_peer", "poll"}
InUnsetsig == {"unsetsig_hup", "unsetsig_term", "unsetsig_int"}

\* sigint(): the process exits if the flag is already raised, and raises
\* the flag otherwise
sigint(q) ==
    IF q # 0 THEN [quit_flag |-> q, exited |-> ExitBySigint]
    ELSE [quit_flag |-> 1, exited |-> Running]

\* delivery of signal s to the running process: the handler installed for
\* it runs, and under SIG_DFL each of the three signals terminates the process
Deliver(s) ==
    /\ exited = Running
    /\ sig_last' = SigEv("deliver", s)
    /\ CASE sigact[s] = "sigint" ->
              /\ quit_flag' = sigint(quit_flag).quit_flag
              /\ exited' = sigint(quit_flag).exited
              /\ UNCHANGED reopen_flag
         [] sigact[s] = "sighup" ->
              /\ reopen_flag' = 1
              /\ UNCHANGED <<quit_flag, exited>>
         [] OTHER ->
              /\ exited' = KilledBySignal
              /\ UNCHANGED <<quit_flag, reopen_flag>>
    /\ UNCHANGED <<sigact, main_pc, reopen_pos, fdpass_peer, nonSigVars>>

\* what every step of main does to the record of the latest step
MainAt(where) ==
    /\ exited = Running
    /\ main_pc = where
    /\ sig_last' = SigEv("main", NoSignal)

\* setsig: quit_flag = 0; reopen_flag = 0;
SetsigClear ==
    /\ MainAt("start")
    /\ quit_flag' = 0
    /\ reopen_flag' = 0
    /\ main_pc' = "setsig_int"
    /\ UNCHANGED <<sigact, exited, reopen_pos, fdpass_peer, nonSigVars>>

\* setsig: the three sigaction calls, SIGINT, SIGTERM, SIGHUP
SetsigInstall ==
    /\ exited = Running
    /\ main_pc \in InSetsig
    /\ sig_last' = SigEv("main", NoSignal)
    /\ CASE main_pc = "setsig_int" ->
              /\ sigact' = [sigact EXCEPT !["SIGINT"] = "sigint"]
              /\ main_pc' = "setsig_term"
         [] main_pc = "setsig_term" ->
              /\ sigact' = [sigact EXCEPT !["SIGTERM"] = "sigint"]
              /\ main_pc' = "setsig_hup"
         [] OTHER ->
              /\ sigact' = [sigact EXCEPT !["SIGHUP"] = "sighup"]
              /\ main_pc' = "init"
    /\ UNCHANGED <<quit_flag, reopen_flag, exited, reopen_pos, fdpass_peer,
                   nonSigVars>>

\* main from filelist_init to pledge: the helper is started, the sockets,
\* ports and devices are set up
InitOk ==
    /\ MainAt("init")
    /\ fdpass_peer' = TRUE
    /\ main_pc' = "loop"
    /\ UNCHANGED <<quit_flag, reopen_flag, sigact, exited, reopen_pos,
                   nonSigVars>>

\* one of them fails: return 1, or err(1, ...)
InitFail ==
    /\ MainAt("init")
    /\ exited' = ExitByMain
    /\ UNCHANGED <<quit_flag, reopen_flag, sigact, main_pc, reopen_pos,
                   fdpass_peer, nonSigVars>>

\* if (quit_flag) break;
LoopTestQuit ==
    /\ MainAt("loop")
    /\ main_pc' = IF quit_flag # 0 THEN "shutdown" ELSE "test_reopen"
    /\ UNCHANGED <<quit_flag, reopen_flag, sigact, exited, reopen_pos,
                   fdpass_peer, nonSigVars>>

\* if (reopen_flag) {
LoopTestReopen ==
    /\ MainAt("test_reopen")
    /\ main_pc' = IF reopen_flag # 0 THEN "clear_reopen" ELSE "test_peer"
    /\ UNCHANGED <<quit_flag, reopen_flag, sigact, exited, reopen_pos,
                   fdpass_peer, nonSigVars>>

\* (a main loop that starts the walk over dev_list with the flag left as
\* it is)
LoopReopenKeepsFlag ==
    /\ MainAt("clear_reopen")
    /\ reopen_pos' = 0
    /\ main_pc' = "reopen"
    /\ UNCHANGED <<quit_flag, reopen_flag, sigact, exited, fdpass_peer,
                   nonSigVars>>

\* reopen_flag = 0; and the walk over dev_list starts
LoopClearReopen ==
    /\ MainAt("clear_reopen")
    /\ reopen_flag' = 0
    /\ reopen_pos' = 0
    /\ main_pc' = "reopen"
    /\ UNCHANGED <<quit_flag, sigact, exited, fdpass_peer, nonSigVars>>

\* dev_reopen(d) for the next device of dev_list
DevReopen ==
    /\ MainAt("reopen")
    /\ reopen_pos < MaxDevs
    /\ reopen_pos' = reopen_pos + 1
    /\ UNCHANGED <<quit_flag, reopen_flag, sigact, main_pc, exited,
                   fdpass_peer, nonSigVars>>

\* port_reopen(p) for the next port of port_list
PortReopen ==
    /\ MainAt("reopen")
    /\ reopen_pos >= MaxDevs
    /\ reopen_pos < MaxDevs + MaxPorts
    /\ reopen_pos' = reopen_pos + 1
    /\ UNCHANGED <<quit_flag, reopen_flag, sigact, main_pc, exited,
                   fdpass_peer, nonSigVars>>

\* p == NULL: the end of the reopen
ReopenEnd ==
    /\ MainAt("reopen")
    /\ reopen_pos = MaxDevs + MaxPorts
    /\ main_pc' = "test_peer"
    /\ UNCHANGED <<quit_flag, reopen_flag, sigact, exited, reopen_pos,
                   fdpass_peer, nonSigVars>>

\* if (!fdpass_peer) break;
LoopTestPeer ==
    /\ MainAt("test_peer")
    /\ main_pc' = IF fdpass_peer THEN "poll" ELSE "shutdown"
    /\ UNCHANGED <<quit_flag, reopen_flag, sigact, exited, reopen_pos,
                   fdpass_peer, nonSigVars>>

\* if (!file_poll()) break; file_poll returns 0 when no file is left, and
\* 1 after an event, a timeout or an interrupted poll(2); the helper's
\* socket may have been closed by then
FilePoll(more, peer) ==
    /\ MainAt("poll")
    /\ fdpass_peer' = (fdpass_peer /\ peer)
    /\ main_pc' = IF more THEN "loop" ELSE "shutdown"
    /\ UNCHANGED <<quit_flag, reopen_flag, sigact, exited, reopen_pos,
                   nonSigVars>>

\* main from stop_helper to filelist_done
Shutdown ==
    /\ MainAt("shutdown")
    /\ fdpass_peer' = FALSE
    /\ main_pc' = "unsetsig_hup"
    /\ UNCHANGED <<quit_flag, reopen_flag, sigact, exited, reopen_pos,
                   nonSigVars>>

\* unsetsig: the three sigaction calls, SIGHUP, SIGTERM, SIGINT
UnsetsigReset ==
    /\ exited = Running
    /\ main_pc \in InUnsetsig
    /\ sig_last' = SigEv("main", NoSignal)
    /\ CASE main_pc = "unsetsig_hup" ->
              /\ sigact' = [sigact EXCEPT !["SIGHUP"] = "SIG_DFL"]
              /\ main_pc' = "unsetsig_term"
         [] main_pc = "unsetsig_term" ->
              /\ sigact' = [sigact EXCEPT !["SIGTERM"] = "SIG_DFL"]
              /\ main_pc' = "unsetsig_int"
         [] OTHER ->
              /\ sigact' = [sigact EXCEPT !["SIGINT"] = "SIG_DFL"]
              /\ main_pc' = "return"
    /\ UNCHANGED <<quit_flag, reopen_flag, exited, reopen_pos, fdpass_peer,
                   nonSigVars>>

\* return 0;
Return0 ==
    /\ MainAt("return")
    /\ exited' = ReturnedFromMain
    /\ UNCHANGED <<quit_flag, reopen_flag, sigact, main_pc, reopen_pos,
                   fdpass_peer, nonSigVars>>

\* the next statement of main
MainStep ==
    \/ SetsigClear
    \/ SetsigInstall
    \/ InitOk
    \/ InitFail
    \/ LoopTestQuit
    \/ LoopTestReopen
    \/ LoopClearReopen
    \/ DevReopen
    \/ PortReopen
    \/ ReopenEnd
    \/ LoopTestPeer
    \/ \E more \in BOOLEAN : \E peer \in BOOLEAN : FilePoll(more, peer)
    \/ Shutdown
    \/ UnsetsigReset
    \/ Return0

\* the process as execve leaves it: both flags 0, every signal at SIG_DFL
InitSig ==
    /\ quit_flag = 0
    /\ reopen_flag = 0
    /\ sigact = [s \in Signals |-> "SIG_DFL"]
    /\ main_pc = "start"
    /\ exited = Running
    /\ reopen_pos = 0
    /\ fdpass_peer = FALSE
    /\ sig_last = SigEv("execve", NoSignal)

NextSig ==
    \/ SetsigClear
    \/ SetsigInstall
    \/ InitOk
    \/ InitFail
    \/ LoopTestQuit
    \/ LoopTestReopen
    \/ LoopClearReopen
    \/ DevReopen
    \/ PortReopen
    \/ ReopenEnd
    \/ LoopTestPeer
    \/ \E more \in BOOLEAN : \E peer \in BOOLEAN : FilePoll(more, peer)
    \/ Shutdown
    \/ UnsetsigReset
    \/ Return0
    \/ \E s \in Signals : Deliver(s)

-----------------------------------------------------------------------------
(* pf_state_list (sys/net/pfvar_priv.h): the list of states and the        *)
(* patterns by which it is inserted into, traversed and removed from.      *)
(* Every lock operation and every access to the list is one step.          *)

\* the states are 1..MaxPfStates
MaxPfStates == 3
PfStates == 1..MaxPfStates
\* the NULL pointer to a state
NoState == 0

\* the contexts that traverse (the ioctls, pfsync), insert, and remove
Traversers == {"ioctl", "pfsync"}
Inserters == {"pf_state_insert"}
Removers == {"gc"}
PfProcs == Traversers \cup Inserters \cup Removers
NoOwner == "none"

NoLocals == [head |-> NoState, tail |-> NoState, state |-> NoState,
             next |-> NoState, visited |-> << >>, snap |-> << >>]

\* the states reached from s along the links, k at most
RECURSIVE Chain(_, _, _)
Chain(s, nxt, k) ==
    IF s = NoState \/ k = 0 THEN << >>
    ELSE <<s>> \o Chain(nxt[s], nxt, k - 1)

\* the list from its head, and the states on it
PfList == Chain(pfs_list.first, entry_next, MaxPfStates)
OnList == {PfList[i] : i \in 1..Len(PfList)}

TAILQ_FIRST(l) == l.first
TAILQ_LAST(l) == l.last
TAILQ_NEXT(nxt, s) == nxt[s]

TAILQ_INSERT_TAIL(l, nxt, s) ==
    IF l.last = NoState
    THEN [list |-> [first |-> s, last |-> s],
          next |-> [nxt EXCEPT ![s] = NoState]]
    ELSE [list |-> [first |-> l.first, last |-> s],
          next |-> [nxt EXCEPT ![s] = NoState, ![l.last] = s]]

\* the link of the removed state itself is left as it is
TAILQ_REMOVE(l, nxt, s) ==
    LET before == {q \in PfStates : q \in OnList /\ nxt[q] = s}
        pred == IF before = {} THEN NoState ELSE CHOOSE q \in before : TRUE
    IN  [list |-> [first |-> IF l.first = s THEN nxt[s] ELSE l.first,
                   last  |-> IF l.last = s THEN pred ELSE l.last],
         next |-> IF pred = NoState THEN nxt ELSE [nxt EXCEPT ![pred] = nxt[s]]]

\* what the certificate core's variables are to the list operations
nonPfVars == <<certVars, indexVars, loopVars, sigVars>>

(* traversal of the list *)

\* rw_enter_read(&pf_state_list.pfs_rwl): waits while a writer holds the lock
TravEnterRead(p) ==
    /\ pf_pc[p] = "idle"
    /\ pfs_rwl.writer = NoOwner
    /\ pfs_rwl' = [pfs_rwl EXCEPT !.readers = @ \cup {p}]
    /\ pf_pc' = [pf_pc EXCEPT ![p] = "mtx_enter"]
    /\ pf_loc' = [pf_loc EXCEPT ![p] = NoLocals]
    /\ UNCHANGED <<pfs_list, entry_next, pfs_mtx, nonPfVars>>

\* mtx_enter(&pf_state_list.pfs_mtx)
TravMtxEnter(p) ==
    /\ pf_pc[p] = "mtx_enter"
    /\ pfs_mtx = NoOwner
    /\ pfs_mtx' = p
    /\ pf_pc' = [pf_pc EXCEPT ![p] = "snapshot"]
    /\ UNCHANGED <<pfs_list, entry_next, pfs_rwl, pf_loc, nonPfVars>>

\* head = TAILQ_FIRST(...); tail = TAILQ_LAST(...); snap remembers the list
\* as it is now
TravSnapshot(p) ==
    /\ pf_pc[p] = "snapshot"
    /\ pf_loc' = [pf_loc EXCEPT ![p].head = TAILQ_FIRST(pfs_list),
                                ![p].tail = TAILQ_LAST(pfs_list),
                                ![p].snap = PfList]
    /\ pf_pc' = [pf_pc EXCEPT ![p] = "mtx_leave"]
    /\ UNCHANGED <<pfs_list, entry_next, pfs_mtx, pfs_rwl, nonPfVars>>

\* mtx_leave(&pf_state_list.pfs_mtx); state = NULL; next = head
TravMtxLeave(p) ==
    /\ pf_pc[p] = "mtx_leave"
    /\ pfs_mtx' = NoOwner
    /\ pf_loc' = [pf_loc EXCEPT ![p].state = NoState, ![p].next = pf_loc[p].head]
    /\ pf_pc' = [pf_pc EXCEPT ![p] = "while"]
    /\ UNCHANGED <<pfs_list, entry_next, pfs_rwl, nonPfVars>>

\* while (state != tail)
TravTest(p) ==
    /\ pf_pc[p] = "while"
    /\ pf_pc' = [pf_pc EXCEPT ![p] = IF pf_loc[p].state # pf_loc[p].tail
                                     THEN "body" ELSE "exit_read"]
    /\ UNCHANGED <<pfs_list, entry_next, pfs_mtx, pfs_rwl, pf_loc, nonPfVars>>

\* the values a read of the link of s may yield: the link, or anything when
\* an inserter is writing that very link (s is the last state and
\* TAILQ_INSERT_TAIL is under way under the mutex alone)
LinkRead(s) ==
    IF s = pfs_list.last /\ \E q \in Inserters : pf_pc[q] = "insert_tail"
    THEN PfStates \cup {NoState}
    ELSE {TAILQ_NEXT(entry_next, s)}

\* state = next; next = TAILQ_NEXT(state, entry_list); look at the state.
\* With state = NULL the read of its link ends the kernel.
TravBody(p) ==
    /\ pf_pc[p] = "body"
    /\ IF pf_loc[p].next = NoState
       THEN /\ pf_pc' = [pf_pc EXCEPT ![p] = "crashed"]
            /\ pf_loc' = [pf_loc EXCEPT ![p].state = NoState]
       ELSE /\ \E n \in LinkRead(pf_loc[p].next) :
                  pf_loc' = [pf_loc EXCEPT ![p].state = pf_loc[p].next,
                                           ![p].next = n,
                                           ![p].visited = Append(@, pf_loc[p].next)]
            /\ pf_pc' = [pf_pc EXCEPT ![p] = "while"]
    /\ UNCHANGED <<pfs_list, entry_next, pfs_mtx, pfs_rwl, nonPfVars>>

\* rw_exit_read(&pf_state_list.pfs_rwl)
TravExitRead(p) ==
    /\ pf_pc[p] = "exit_read"
    /\ pfs_rwl' = [pfs_rwl EXCEPT !.readers = @ \ {p}]
    /\ pf_pc' = [pf_pc EXCEPT ![p] = "idle"]
    /\ pf_loc' = [pf_loc EXCEPT ![p] = NoLocals]
    /\ UNCHANGED <<pfs_list, entry_next, pfs_mtx, nonPfVars>>

(* insertion into the list *)

\* mtx_enter(&pf_state_list.pfs_mtx), with a state that is not on the list
InsMtxEnter(p, s) ==
    /\ pf_pc[p] = "idle"
    /\ s \notin OnList
    /\ pfs_mtx = NoOwner
    /\ pfs_mtx' = p
    /\ pf_loc' = [pf_loc EXCEPT ![p].state = s]
    /\ pf_pc' = [pf_pc EXCEPT ![p] = "insert_tail"]
    /\ UNCHANGED <<pfs_list, entry_next, pfs_rwl, nonPfVars>>

\* TAILQ_INSERT_TAIL(&pf_state_list.pfs_list, state, entry_list)
InsInsertTail(p) ==
    /\ pf_pc[p] = "insert_tail"
    /\ LET r == TAILQ_INSERT_TAIL(pfs_list, entry_next, pf_loc[p].state)
       IN  pfs_list' = r.list /\ entry_next' = r.next
    /\ pf_pc' = [pf_pc EXCEPT ![p] = "ins_mtx_leave"]
    /\ UNCHANGED <<pfs_mtx, pfs_rwl, pf_loc, nonPfVars>>

\* mtx_leave(&pf_state_list.pfs_mtx)
InsMtxLeave(p) ==
    /\ pf_pc[p] = "ins_mtx_leave"
    /\ pfs_mtx' = NoOwner
    /\ pf_loc' = [pf_loc EXCEPT ![p] = NoLocals]
    /\ pf_pc' = [pf_pc EXCEPT ![p] = "idle"]
    /\ UNCHANGED <<pfs_list, entry_next, pfs_rwl, nonPfVars>>

(* removing an item from the list *)

\* rw_enter_write as if it did not wait for the readers to get out
GcEnterWriteAmongReaders(p) ==
    /\ pf_pc[p] = "idle"
    /\ pfs_rwl.writer = NoOwner
    /\ pfs_rwl' = [pfs_rwl EXCEPT !.writer = p]
    /\ pf_pc' = [pf_pc EXCEPT ![p] = "gc_mtx_enter"]
    /\ UNCHANGED <<pfs_list, entry_next, pfs_mtx, pf_loc, nonPfVars>>

\* rw_enter_write(&pf_state_list.pfs_rwl): waits for the readers and for a
\* writer to get out
GcEnterWrite(p) ==
    /\ pf_pc[p] = "idle"
    /\ pfs_rwl.readers = {}
    /\ pfs_rwl.writer = NoOwner
    /\ pfs_rwl' = [pfs_rwl EXCEPT !.writer = p]
    /\ pf_pc' = [pf_pc EXCEPT ![p] = "gc_mtx_enter"]
    /\ UNCHANGED <<pfs_list, entry_next, pfs_mtx, pf_loc, nonPfVars>>

\* mtx_enter(&pf_state_list.pfs_mtx)
GcMtxEnter(p) ==
    /\ pf_pc[p] = "gc_mtx_enter"
    /\ pfs_mtx = NoOwner
    /\ pfs_mtx' = p
    /\ pf_pc' = [pf_pc EXCEPT ![p] = "remove"]
    /\ UNCHANGED <<pfs_list, entry_next, pfs_rwl, pf_loc, nonPfVars>>

\* TAILQ_REMOVE(&pf_state_list.pfs_list, state, entry_list) for a state on
\* the list; nothing to remove from an empty list
GcRemove(p) ==
    /\ pf_pc[p] = "remove"
    /\ IF OnList = {}
       THEN UNCHANGED <<pfs_list, entry_next>>
       ELSE \E s \in OnList :
              LET r == TAILQ_REMOVE(pfs_list, entry_next, s)
              IN  pfs_list' = r.list /\ entry_next' = r.next
    /\ pf_pc' = [pf_pc EXCEPT ![p] = "gc_mtx_leave"]
    /\ UNCHANGED <<pfs_mtx, pfs_rwl, pf_loc, nonPfVars>>

\* mtx_leave(&pf_state_list.pfs_mtx)
GcMtxLeave(p) ==
    /\ pf_pc[p] = "gc_mtx_leave"
    /\ pfs_mtx' = NoOwner
    /\ pf_pc' = [pf_pc EXCEPT ![p] = "exit_write"]
    /\ UNCHANGED <<pfs_list, entry_next, pfs_rwl, pf_loc, nonPfVars>>

\* rw_exit_write(&pf_state_list.pfs_rwl)
GcExitWrite(p) ==
    /\ pf_pc[p] = "exit_write"
    /\ pfs_rwl' = [pfs_rwl EXCEPT !.writer = NoOwner]
    /\ pf_pc' = [pf_pc EXCEPT ![p] = "idle"]
    /\ UNCHANGED <<pfs_list, entry_next, pfs_mtx, pf_loc, nonPfVars>>

\* PF_STATE_LIST_INITIALIZER: an empty list, both locks free
InitPf ==
    /\ pfs_list = [first |-> NoState, last |-> NoState]
    /\ entry_next = [s \in PfStates |-> NoState]
    /\ pfs_mtx = NoOwner
    /\ pfs_rwl = [readers |-> {}, writer |-> NoOwner]
    /\ pf_pc = [p \in PfProcs |-> "idle"]
    /\ pf_loc = [p \in PfProcs |-> NoLocals]

InitRest == InitPf /\ InitSig

\* the next step of context p
PfStep(p) ==
    \/ TravEnterRead(p) /\ p \in Traversers
    \/ TravMtxEnter(p)
    \/ TravSnapshot(p)
    \/ TravMtxLeave(p)
    \/ TravTest(p)
    \/ TravBody(p)
    \/ TravExitRead(p)
    \/ \E s \in PfStates : InsMtxEnter(p, s) /\ p \in Inserters
    \/ InsInsertTail(p)
    \/ InsMtxLeave(p)
    \/ GcEnterWrite(p) /\ p \in Removers
    \/ GcMtxEnter(p)
    \/ GcRemove(p)
    \/ GcMtxLeave(p)
    \/ GcExitWrite(p)

-----------------------------------------------------------------------------
(* The certificate pipeline *)

InitIndex ==
    /\ auths = << >>
    /\ brks = << >>
    /\ brklog = << >>
    /\ fatal = FALSE

InitCert ==
    /\ pc = "start"
    /\ res = FREED
    /\ sia_present = FALSE
    /\ afi = NoAfi
    /\ last = In("Init", NoInput)
    /\ diag = ""
    /\ buf = NoBuf
    /\ rd = FREED
    /\ xobj = NoObject

\* no call of cert_insert_brks under way; where the width of a size_t plays
\* no part it is that of an LP64 build
InitLoop ==
    /\ cib = NoFrame
    /\ size_w = 2 * AsnBits

InitOther == InitLoop /\ InitRest

Init == InitCert /\ InitIndex /\ InitOther

Next ==
    \/ \E der \in {"NULL", "garbage", "der"} : ParseBegin(der)
    \/ \E ext \in Exts : ExtAsBegin(ext)
    \/ \E t \in AsElems : AsElemStep(t)
    \/ \E tt \in AsItemsOffered : AsItemStep(tt)
    \/ AsItemsEnd
    \/ AsElemsEnd
    \/ \E ext \in Exts : ExtIpBegin(ext)
    \/ \E t \in IpFams : IpFamStep(t)
    \/ \E t \in IpItemsOffered : IpItemStep(t)
    \/ IpItemsEnd
    \/ IpFamsEnd
    \/ \E ext \in Exts : ExtSiaBegin(ext)
    \/ \E ad \in SiaAds : SiaAdStep(ad)
    \/ SiaEnd
    \/ \E ext \in CertPolExts : ExtCertPol(ext)
    \/ \E nid \in IgnoredNids : ExtIgnored(nid)
    \/ \E x \in X509s : Finish(x)
    \/ CertParse
    \/ \E pkey \in TalKeys, now \in 0..MaxTime : TaParse(pkey, now)
    \/ CertBuffer
    \/ CertRead
    \/ CertFree

Spec == Init /\ [][Next]_vars

\* the caller holds a record of any content
InitHeld ==
    /\ pc = "held"
    /\ res \in AnyCerts
    /\ sia_present = FALSE
    /\ afi = NoAfi
    /\ last = In("Init", NoInput)
    /\ diag = ""
    /\ buf = NoBuf
    /\ rd = FREED
    /\ xobj = NoObject
    /\ InitIndex
    /\ InitOther

\* the certificate pipeline, begun with a certificate to parse or with a
\* record of any content to write and read back
SpecRead == (Init \/ InitHeld) /\ [][Next]_vars

\* the trust index on its own
NextAuth ==
    \/ \E cert \in AuthCerts : \E parent \in AuthParents : AuthInsert(cert, parent)
    \/ \E aki \in AuthAkis : AuthFind(aki)

SpecAuth == Init /\ [][NextAuth]_vars

\* the trust index as the validator fills it
NextTrust ==
    \/ \E cert \in TrustCerts : InsertRoot(cert)
    \/ \E cert \in TrustCerts : InsertSubordinate(cert)
    \/ \E cert \in TrustCerts : DropOrphan(cert)

SpecTrust == Init /\ [][NextTrust]_vars

\* the router-key index on its own
NextBrk ==
    \E cert \in BrkCerts : CertInsertBrks(cert)

SpecBrk == Init /\ [][NextBrk]_vars

\* the list of states under every interleaving of its contexts
NextPf ==
    \/ \E p \in Traversers : TravEnterRead(p)
    \/ \E p \in Traversers : TravMtxEnter(p)
    \/ \E p \in Traversers : TravSnapshot(p)
    \/ \E p \in Traversers : TravMtxLeave(p)
    \/ \E p \in Traversers : TravTest(p)
    \/ \E p \in Traversers : TravBody(p)
    \/ \E p \in Traversers : TravExitRead(p)
    \/ \E p \in Inserters : \E s \in PfStates : InsMtxEnter(p, s)
    \/ \E p \in Inserters : InsInsertTail(p)
    \/ \E p \in Inserters : InsMtxLeave(p)
    \/ \E p \in Removers : GcEnterWrite(p)
    \/ \E p \in Removers : GcMtxEnter(p)
    \/ \E p \in Removers : GcRemove(p)
    \/ \E p \in Removers : GcMtxLeave(p)
    \/ \E p \in Removers : GcExitWrite(p)

SpecPf == Init /\ [][NextPf]_vars

\* sndiod from execve on; main goes on to its next statement as long as the
\* process runs: file_poll returns after an event, a timeout or a signal
SpecSig == Init /\ [][NextSig]_vars /\ WF_vars(MainStep)

\* cert_insert_brks step by step, in a build of either width; the caller
\* may stop calling, the loops of a call go on until they end
InitBrkLoop ==
    /\ InitCert
    /\ InitIndex
    /\ cib = NoFrame
    /\ size_w \in SizeWidths
    /\ InitRest

NextBrkLoop ==
    \/ \E cert \in LoopCerts : CibCall(cert)
    \/ CibOuter
    \/ CibInner
    \/ CibReturn

SpecBrkLoop ==
    /\ InitBrkLoop
    /\ [][NextBrkLoop]_vars
    /\ WF_vars(CibOuter)
    /\ WF_vars(CibInner)
    /\ WF_vars(CibReturn)

-----------------------------------------------------------------------------
(* Properties of the certificate pipeline *)

\* the values of pc at which res is a record
HoldsRecord ==
    pc \in {"exts", "sbgp_assysnum", "sbgp_asnum", "sbgp_ipaddrblk",
            "sbgp_addr_or_range", "sbgp_sia", "accepted", "cert_ok", "ta_ok",
            "buffered", "read"}

\* the values of pc at which res is a record cert_parse_pre has returned
Returned == pc \in {"accepted", "cert_ok", "ta_ok", "buffered", "read"}

IsExplicitIp(e) == e.type \in {CERT_IP_ADDR, CERT_IP_RANGE}
IsExplicitAs(e) == e.type \in {CERT_AS_ID, CERT_AS_RANGE}
LowAs(e) == IF e.type = CERT_AS_ID THEN e.id ELSE e.min
HighAs(e) == IF e.type = CERT_AS_ID THEN e.id ELSE e.max

NoOverlapIn(r) ==
    /\ \A i, j \in 1..Len(r.ips) :
          (i < j /\ r.ips[i].afi = r.ips[j].afi
                 /\ IsExplicitIp(r.ips[i]) /\ IsExplicitIp(r.ips[j]))
          => (r.ips[i].max < r.ips[j].min \/ r.ips[j].max < r.ips[i].min)
    /\ \A i, j \in 1..Len(r.as) :
          (i < j /\ IsExplicitAs(r.as[i]) /\ IsExplicitAs(r.as[j]))
          => (HighAs(r.as[i]) < LowAs(r.as[j]) \/ HighAs(r.as[j]) < LowAs(r.as[i]))

\* an entry has been added to a list only if it passes the overlap check
\* against the entries the list held
AddedOnlyIfChecked ==
    (HoldsRecord /\ HoldsRecord')
    => /\ Len(res'.as) > Len(res.as)
          => /\ res'.as = Append(res.as, res'.as[Len(res'.as)])
             /\ as_check_overlap(res'.as[Len(res'.as)], res.as)
       /\ Len(res'.ips) > Len(res.ips)
          => /\ res'.ips = Append(res.ips, res'.ips[Len(res'.ips)])
             /\ ip_addr_check_overlap(res'.ips[Len(res'.ips)], res.ips)

\* C1: the IP entries of one family and the AS entries of a record never
\* overlap, during decoding and in every record cert_parse_pre returns, and
\* append_ip / append_as add an entry only if it passes the overlap check
\* against the entries already in the list.
Thm_C1_NoOverlap == [](HoldsRecord => NoOverlapIn(res)) /\ [][AddedOnlyIfChecked]_vars

\* a record with two explicit entries of one family has been returned
Wit_C1_TwoEntriesOneFamily ==
    /\ pc = "accepted"
    /\ Len(res.ips) = 2
    /\ res.ips[1].afi = res.ips[2].afi
    /\ IsExplicitIp(res.ips[1])
    /\ IsExplicitIp(res.ips[2])

SameFields(a, b) ==
    /\ a.expires = b.expires
    /\ a.purpose = b.purpose
    /\ a.talid = b.talid
    /\ Len(a.ips) = Len(b.ips)
    /\ Len(a.as) = Len(b.as)
    /\ a.ips = b.ips
    /\ a.as = b.as
    /\ a.mft = b.mft
    /\ a.notify = b.notify
    /\ a.repo = b.repo
    /\ a.crl = b.crl
    /\ a.aia = b.aia
    /\ a.aki = b.aki
    /\ a.ski = b.ski
    /\ a.pubkey = b.pubkey

\* C2: cert_read applied to the bytes cert_buffer wrote for a record that
\* cert_parse_pre returned never aborts and yields a record whose expiry,
\* purpose, group id, entry counts, IP entries, AS entries, manifest,
\* notification, repository, CRL, AIA, AKI, SKI and public key equal the
\* original's.
Thm_C2_RoundTrip ==
    /\ pc = "read" => SameFields(rd, res)
    /\ pc # "aborted"

\* a CA record with locators and an IP entry has made the round trip
Wit_C2_RoundTrip ==
    /\ pc = "read"
    /\ rd.mft # NULL
    /\ rd.notify # NULL
    /\ rd.aki # NULL
    /\ Len(rd.ips) > 0

\* the step is the closing part of cert_parse_pre
FinishStep == pc = "exts" /\ last'.op = "Finish"

CaRejected ==
    (FinishStep /\ last'.in.purpose = CERT_PURPOSE_CA
                /\ (res.mft = NULL \/ (Len(res.ips) = 0 /\ Len(res.as) = 0)))
    => (pc' = "rejected" /\ res' = FREED)

\* C5: a record returned with purpose CA has a manifest locator and at
\* least one IP or AS entry; the closing checks of cert_parse_pre reject a CA
\* certificate without manifest locator or with both lists empty.
Thm_C5_CaRules ==
    /\ []((Returned /\ res.purpose = CERT_PURPOSE_CA)
          => (res.mft # NULL /\ Len(res.ips) + Len(res.as) > 0))
    /\ [][CaRejected]_vars

\* a CA certificate with a manifest locator and no resources was rejected
Wit_C5_EmptyCaRejected ==
    /\ pc = "rejected"
    /\ last.op = "Finish"
    /\ last.in.purpose = CERT_PURPOSE_CA
    /\ diag = "missing IP or AS resources"

AllExtracted(x) == x.aki_ok /\ x.ski_ok /\ x.aia_ok /\ x.crl_ok /\ x.exp_ok

RouterRejected ==
    (FinishStep /\ last'.in.purpose = CERT_PURPOSE_BGPSEC_ROUTER
                /\ (Len(res.ips) > 0 \/ sia_present \/ last'.in.pubkey = NULL))
    => (pc' = "rejected" /\ res' = FREED)

RouterAccepted ==
    (FinishStep /\ last'.in.purpose = CERT_PURPOSE_BGPSEC_ROUTER
                /\ AllExtracted(last'.in) /\ last'.in.ski # NULL
                /\ last'.in.pubkey # NULL /\ Len(res.ips) = 0 /\ ~ sia_present)
    => (pc' = "accepted" /\ res'.purpose = CERT_PURPOSE_BGPSEC_ROUTER
                         /\ res'.pubkey = last'.in.pubkey)

\* C6: cert_parse_pre rejects a BGPsec-router certificate that carries an
\* IP entry, that has an SIA extension, or whose public key cannot be
\* extracted, so a router record it returns has a public key, no IP entry
\* and saw no SIA; it accepts a router certificate with a public key, an
\* empty IP list and no SIA (whose fields are extracted and whose SKI is
\* present).
Thm_C6_RouterRules ==
    /\ []((Returned /\ res.purpose = CERT_PURPOSE_BGPSEC_ROUTER)
          => (res.pubkey # NULL /\ Len(res.ips) = 0 /\ ~ sia_present))
    /\ [][RouterRejected /\ RouterAccepted]_vars

\* a router certificate with AS resources, a key, no IP entry and no SIA
\* was accepted
Wit_C6_RouterAccepted ==
    /\ pc = "accepted"
    /\ last.op = "Finish"
    /\ res.purpose = CERT_PURPOSE_BGPSEC_ROUTER
    /\ res.pubkey = Key1
    /\ Len(res.as) > 0

TaStep == pc = "accepted" /\ last'.op = "TaParse"

TaConditions(p, pkey, now) ==
    /\ pkey.d2i_ok
    /\ pkey.key = p.x509.pubkey
    /\ p.x509.notBefore <= now
    /\ now <= p.x509.notAfter
    /\ (p.aki = NULL \/ p.aki = p.ski)
    /\ p.aia = NULL
    /\ p.crl = NULL
    /\ p.purpose # CERT_PURPOSE_BGPSEC_ROUTER

\* C7: ta_parse returns the record, unchanged, only if the certificate's key
\* equals the locator's key, the clock is within notBefore..notAfter, the
\* AKI is absent or equal to the SKI, AIA and CRL locator are absent and the
\* purpose is not BGPsec-router; in every other case it releases the record
\* and returns nothing.
Thm_C7_TaParse ==
    [][TaStep =>
         /\ pc' \in {"ta_ok", "ta_bad"}
         /\ pc' = "ta_ok" => (TaConditions(res, last'.in.pkey, last'.in.now) /\ res' = res)
         /\ ~ TaConditions(res, last'.in.pkey, last'.in.now)
            => (pc' = "ta_bad" /\ res' = FREED)]_vars

\* ta_parse has returned a record
Wit_C7_TaReturned == pc = "ta_ok" /\ last.op = "TaParse"

CertStep == pc = "accepted" /\ last'.op = "CertParse"

\* C8: cert_parse returns the record it was given, unchanged, if and only
\* if the AKI is present and differs from the SKI and AIA and CRL locator
\* are present; otherwise it releases the record and returns nothing.
Thm_C8_CertParse ==
    [][CertStep =>
         IF res.aki # NULL /\ res.aki # res.ski /\ res.aia # NULL /\ res.crl # NULL
         THEN pc' = "cert_ok" /\ res' = res
         ELSE pc' = "cert_bad" /\ res' = FREED]_vars

\* cert_parse has released a record whose AKI equals its SKI
Wit_C8_SelfSignedReleased ==
    /\ pc = "cert_bad"
    /\ diag = "non-trust anchor AKI may not match SKI"

\* the latest step offered sbgp_asnum a two-integer sequence a, b that both
\* convert, with b <= a
OfferedBadRange ==
    /\ last.op = "AsItemStep"
    /\ last.in.type = "SEQUENCE"
    /\ last.in.d2i_ok
    /\ Len(last.in.seq) = 2
    /\ last.in.seq[1].type = "INTEGER"
    /\ last.in.seq[2].type = "INTEGER"
    /\ as_id_parse_ok(last.in.seq[1].int)
    /\ as_id_parse_ok(last.in.seq[2].int)
    /\ last.in.seq[2].int <= last.in.seq[1].int

\* C9: every AS range entry of a record has min < max; a range whose bounds
\* are equal or whose max is below its min fails the certificate.
Thm_C9_AsRange ==
    /\ HoldsRecord =>
          \A i \in 1..Len(res.as) :
              res.as[i].type = CERT_AS_RANGE => res.as[i].min < res.as[i].max
    /\ OfferedBadRange => (pc = "rejected" /\ res = FREED)

\* the range (1, 1) was offered and the certificate rejected
Wit_C9_SingularRejected ==
    /\ pc = "rejected"
    /\ last.op = "AsItemStep"
    /\ last.in = Asn1Seq(<<Asn1Int(1), Asn1Int(1)>>)
    /\ diag = "ASRange: range is singular"

\* C10: every singleton AS entry of a record has a nonzero identifier; the
\* singleton 0 fails the certificate.
Thm_C10_AsIdZero ==
    /\ HoldsRecord =>
          \A i \in 1..Len(res.as) : res.as[i].type = CERT_AS_ID => res.as[i].id # 0
    /\ (last.op = "AsItemStep" /\ last.in.type = "INTEGER" /\ last.in.int = 0)
       => (pc = "rejected" /\ res = FREED)

\* the singleton 0 was offered and the certificate rejected
Wit_C10_ZeroRejected ==
    /\ pc = "rejected"
    /\ last.op = "AsItemStep"
    /\ last.in = Asn1Int(0)
    /\ diag = "ASId: AS identifier zero is reserved"

\* an IPAddressFamily element that passes the framing checks of sbgp_ipaddrfam
WellFormedFam(t) ==
    /\ t.type = "SEQUENCE"
    /\ t.d2i_ok
    /\ t.num = 2
    /\ t.aftype = "OCTET_STRING"
    /\ t.afi \in {AFI_IPV4, AFI_IPV6}

\* an ASIdentifiers element of the asnum kind whose content decodes
WellFormedAsnum(t) ==
    /\ t.type = "OTHER"
    /\ t.frame_ok
    /\ t.ptag = ASID_TYPE_ASNUM
    /\ t.t_ok

HasIpOf(r, f) == \E i \in 1..Len(r.ips) : r.ips[i].afi = f
HasIpInheritOf(r, f) ==
    \E i \in 1..Len(r.ips) : r.ips[i].afi = f /\ r.ips[i].type = CERT_IP_INHERIT
HasAsInherit(r) == \E i \in 1..Len(r.as) : r.as[i].type = CERT_AS_INHERIT

\* inherit is the only entry of its number space
InheritAlone(r) ==
    /\ \A i, j \in 1..Len(r.ips) :
          (i # j /\ r.ips[i].afi = r.ips[j].afi) => r.ips[i].type # CERT_IP_INHERIT
    /\ HasAsInherit(r) => Len(r.as) = 1

\* an inherit statement arrives for a space that has an entry, or an entry
\* arrives for a space that has an inherit statement: the certificate fails
InheritRefused ==
    /\ (/\ pc = "sbgp_ipaddrblk"
        /\ last'.op = "IpFamStep"
        /\ WellFormedFam(last'.in)
        /\ last'.in.choice = "NULL"
        /\ HasIpOf(res, last'.in.afi))
       => (pc' = "rejected" /\ res' = FREED)
    /\ (/\ pc = "sbgp_addr_or_range"
        /\ last'.op = "IpItemStep"
        /\ HasIpInheritOf(res, afi))
       => (pc' = "rejected" /\ res' = FREED)
    /\ (/\ pc = "sbgp_assysnum"
        /\ last'.op = "AsElemStep"
        /\ WellFormedAsnum(last'.in)
        /\ last'.in.ttype = "NULL"
        /\ Len(res.as) > 0)
       => (pc' = "rejected" /\ res' = FREED)
    /\ (/\ pc = "sbgp_asnum"
        /\ last'.op = "AsItemStep"
        /\ HasAsInherit(res))
       => (pc' = "rejected" /\ res' = FREED)

\* C11: in every record, an inherit entry is the only entry of its number
\* space (each IP address family, the AS numbers); a certificate that brings
\* inherit together with a prefix, range, singleton or second inherit of the
\* same space fails, whichever comes first.
Thm_C11_InheritAlone ==
    /\ [](HoldsRecord => InheritAlone(res))
    /\ [][InheritRefused]_vars

\* an inherit statement for an address family was refused by append_ip
Wit_C11_InheritRefused ==
    /\ pc = "rejected"
    /\ last.op = "IpFamStep"
    /\ WellFormedFam(last.in)
    /\ last.in.choice = "NULL"
    /\ diag = "append_ip: overlap"

\* the locators sbgp_sia insists on
SiaLocatorsFit(r) ==
    /\ r.mft # NULL
    /\ r.repo # NULL
    /\ Len(r.repo) <= Len(r.mft)
    /\ \A k \in 1..Len(r.repo) : r.mft[k] = r.repo[k]
    /\ r.mft[Len(r.mft)] = 9

\* sbgp_sia returns to the walk over the extensions
SiaReturns == pc = "sbgp_sia" /\ pc' = "exts"

\* an access description of another method is passed over
OtherAdIgnored ==
    (/\ pc = "sbgp_sia"
     /\ last'.op = "SiaAdStep"
     /\ last'.in.oid \notin {"caRepository", "rpkiManifest", "rpkiNotify"})
    => (pc' = "sbgp_sia" /\ res' = res /\ sia_present' = sia_present)

\* C12: sbgp_sia succeeds only after all access descriptions are scanned and
\* only if a caRepository and an rpkiManifest locator are recorded, the
\* manifest locator begins with the repository locator and has the manifest
\* file extension; an access description of any other method than these two
\* and rpkiNotify changes nothing.
Thm_C12_Sia ==
    /\ []((pc = "exts" /\ sia_present) => SiaLocatorsFit(res))
    /\ [][(SiaReturns => (last'.op = "SiaEnd" /\ res' = res /\ SiaLocatorsFit(res)))
          /\ OtherAdIgnored]_vars

\* sbgp_sia succeeded with repository, manifest and notification locators
Wit_C12_SiaSucceeded ==
    /\ pc = "exts"
    /\ last.op = "SiaEnd"
    /\ res.repo = RepoUri
    /\ res.mft = MftUri
    /\ res.notify = NotifyUri

\* the values of pc inside cert_parse_pre
Decoding ==
    pc \in {"exts", "sbgp_assysnum", "sbgp_asnum", "sbgp_ipaddrblk",
            "sbgp_addr_or_range", "sbgp_sia"}

\* the step is a recognized decoder, or a field extraction, failing
DecoderFails ==
    \/ /\ last'.op \in {"ExtAsBegin", "ExtIpBegin"}
       /\ (~ last'.in.critical \/ last'.in.frame # "")
    \/ /\ last'.op = "ExtSiaBegin"
       /\ (last'.in.critical \/ last'.in.frame # "")
    \/ /\ last'.op = "AsItemStep"
       /\ sbgp_asnum_item(res, last'.in).rc = 0
    \/ /\ last'.op = "IpItemStep"
       /\ sbgp_addr_or_range_item(res, afi, last'.in).rc = 0
    \/ /\ last'.op = "SiaAdStep"
       /\ sbgp_sia_ad(res, last'.in).rc = 0
    \/ /\ last'.op = "SiaEnd"
       /\ sbgp_sia_end(res).rc = 0
    \/ /\ last'.op = "ExtCertPol"
       /\ certificate_policies(last'.in) # ""
    \/ /\ last'.op = "Finish"
       /\ ~ AllExtracted(last'.in)

\* C13: when a recognized extension decoder or a field extraction fails,
\* cert_parse_pre releases the record with the entries appended so far and
\* returns NULL; the process goes on and the next certificate can be parsed.
Thm_C13_FailureReturns ==
    /\ []((Decoding \/ pc = "rejected") => ~ fatal)
    /\ [](pc = "rejected" => (res = FREED /\ ENABLED ParseBegin("der")))
    /\ [][(Decoding /\ DecoderFails) => pc' = "rejected"]_vars

\* an address was refused for overlapping an entry appended before it, and
\* the record was released
Wit_C13_PartialReleased ==
    /\ pc = "rejected"
    /\ res = FREED
    /\ last.op = "IpItemStep"
    /\ diag = "append_ip: overlap"
    /\ ~ fatal

\* C14: an extension that is none of the recognized ones is passed over by
\* the walk of cert_parse_pre wherever it stands: the record, the SIA flag
\* and the position of the walk are what they were before it, so the
\* extensions that follow are decoded as without it.
Thm_C14_UnrecognizedSkipped ==
    [][(pc = "exts" /\ last'.op = "ExtIgnored")
       => /\ pc' = "exts"
          /\ res' = res
          /\ sia_present' = sia_present
          /\ afi' = afi
          /\ diag' = diag
          /\ fatal' = fatal]_vars

\* an unknown extension was passed over after IP resources and an SIA were
\* decoded
Wit_C14_SkippedAfterOthers ==
    /\ pc = "exts"
    /\ last.op = "ExtIgnored"
    /\ last.in.nid = "undef"
    /\ Len(res.ips) > 0
    /\ sia_present

SkiOrPurposeRefused ==
    (FinishStep /\ (last'.in.ski = NULL
                    \/ last'.in.purpose \notin {CERT_PURPOSE_CA,
                                                CERT_PURPOSE_BGPSEC_ROUTER}))
    => (pc' = "rejected" /\ res' = FREED)

\* C15: every record cert_parse_pre returns has an SKI and the purpose CA
\* or BGPsec-router; a certificate without SKI, or classified as anything
\* else, is rejected.
Thm_C15_SkiAndPurpose ==
    /\ [](Returned => (/\ res.ski # NULL
                       /\ res.purpose \in {CERT_PURPOSE_CA,
                                           CERT_PURPOSE_BGPSEC_ROUTER}))
    /\ [][SkiOrPurposeRefused]_vars

\* a certificate that passes every other rule was rejected for its
\* missing SKI
Wit_C15_MissingSki ==
    /\ pc = "rejected"
    /\ last.op = "Finish"
    /\ last.in.ski = NULL
    /\ diag = "missing SKI"

CertPolStep == pc = "exts" /\ last'.op = "ExtCertPol"

\* one policy with the RPKI OID, without qualifiers or with one CPS qualifier
PolicyFits(ext) ==
    /\ ext.npol = 1
    /\ ext.certpol_oid
    /\ (ext.nqual = -1 \/ (ext.nqual = 1 /\ ext.qt_cps))

\* C18: certificate_policies succeeds only for exactly one policy whose OID
\* is the RPKI certificate-policy OID and which has no qualifiers or exactly
\* one qualifier of the CPS type; no or several policies, another OID,
\* several qualifiers or a qualifier of another type fail the certificate.
Thm_C18_CertificatePolicies ==
    [][CertPolStep =>
         /\ pc' \in {"exts", "rejected"}
         /\ pc' = "exts" => (PolicyFits(last'.in) /\ res' = res)
         /\ (\/ last'.in.npol # 1
             \/ ~ last'.in.certpol_oid
             \/ last'.in.nqual > 1
             \/ (last'.in.nqual = 1 /\ ~ last'.in.qt_cps))
            => (pc' = "rejected" /\ res' = FREED)]_vars

\* a policy with one qualifier of another type than CPS failed the certificate
Wit_C18_NotCps ==
    /\ pc = "rejected"
    /\ last.op = "ExtCertPol"
    /\ last.in.nqual = 1
    /\ ~ last.in.qt_cps
    /\ diag = "certificatePolicies: want CPS"

\* the message of the criticality check of the decoder the step enters,
\* "" if the extension carries the flag its decoder wants
WrongFlag(op, ext) ==
    CASE op = "ExtIpBegin" /\ ~ ext.critical -> "sbgp-ipAddrBlock: extension not critical"
      [] op = "ExtAsBegin" /\ ~ ext.critical -> "autonomousSysNum: extension not critical"
      [] op = "ExtCertPol" /\ ~ ext.critical -> "certificatePolicies: extension not critical"
      [] op = "ExtSiaBegin" /\ ext.critical -> "SIA: extension not non-critical"
      [] OTHER -> ""

\* C19: an IP-resource, AS-resource or certificate-policies extension that
\* is not critical, and an SIA extension that is, fails the certificate by
\* the first check of its decoder, whatever the payload: the record is
\* released and nothing of the extension is recorded.
Thm_C19_Criticality ==
    [][(/\ pc = "exts"
        /\ last'.op \in {"ExtIpBegin", "ExtAsBegin", "ExtCertPol", "ExtSiaBegin"}
        /\ WrongFlag(last'.op, last'.in) # "")
       => (/\ pc' = "rejected"
           /\ res' = FREED
           /\ diag' = WrongFlag(last'.op, last'.in))]_vars

\* a critical SIA extension that decodes failed a certificate
Wit_C19_CriticalSia ==
    /\ pc = "rejected"
    /\ last.op = "ExtSiaBegin"
    /\ last.in.critical
    /\ last.in.frame = ""
    /\ diag = "SIA: extension not non-critical"

\* entries a decoder may hand to append_ip and append_as
IpCandidates ==
    {IpEntry(f, ty, b[1], b[2]) :
        f \in {AFI_IPV4, AFI_IPV6}, ty \in {CERT_IP_ADDR, CERT_IP_RANGE}, b \in Blocks}
    \cup {IpInherit(f) : f \in {AFI_IPV4, AFI_IPV6}}
AsCandidates ==
    {AsId(v) : v \in 1..MaxAsn} \cup {AsInherit}
    \cup {AsRange(v, w) : v, w \in 1..MaxAsn}

\* append on a full list fails and returns the record as it is
FullListRefuses ==
    /\ Len(res.ips) >= MAX_IP_SIZE =>
          \A ip \in IpCandidates :
              append_ip(res, ip).rc = 0 /\ append_ip(res, ip).res = res
    /\ Len(res.as) >= MAX_AS_SIZE =>
          \A as \in AsCandidates :
              append_as(res, as).rc = 0 /\ append_as(res, as).res = res

\* a step that hands an entry to append_ip or append_as on a full list
AppendOnFullList ==
    \/ /\ pc = "sbgp_addr_or_range"
       /\ last'.op = "IpItemStep"
       /\ Len(res.ips) = MAX_IP_SIZE
    \/ /\ pc = "sbgp_ipaddrblk"
       /\ last'.op = "IpFamStep"
       /\ WellFormedFam(last'.in)
       /\ last'.in.choice = "NULL"
       /\ Len(res.ips) = MAX_IP_SIZE
    \/ /\ pc = "sbgp_asnum"
       /\ last'.op = "AsItemStep"
       /\ Len(res.as) = MAX_AS_SIZE
    \/ /\ pc = "sbgp_assysnum"
       /\ last'.op = "AsElemStep"
       /\ WellFormedAsnum(last'.in)
       /\ last'.in.ttype = "NULL"
       /\ Len(res.as) = MAX_AS_SIZE

\* C20: while a certificate is decoded its record holds at most MAX_IP_SIZE
\* IP entries and at most MAX_AS_SIZE AS entries; an append on a full list
\* fails, leaves the list as it is, and the certificate is rejected.
Thm_C20_MaxSize ==
    /\ [](HoldsRecord => (/\ Len(res.ips) <= MAX_IP_SIZE
                          /\ Len(res.as) <= MAX_AS_SIZE
                          /\ FullListRefuses))
    /\ [][AppendOnFullList => (pc' = "rejected" /\ res' = FREED)]_vars

\* an address that overlaps nothing was refused because the list was full
Wit_C20_IpListFull ==
    /\ pc = "rejected"
    /\ last.op = "IpItemStep"
    /\ diag = "append_ip: MAX_IP_SIZE"

ReadStep == pc = "buffered" /\ last'.op = "CertRead"

\* what cert_read asserts is missing from the record that was written
LacksSkiOrMft(r) ==
    r.ski = NULL \/ (r.mft = NULL /\ r.purpose # CERT_PURPOSE_BGPSEC_ROUTER)

\* C21: cert_read ends the process by a failed assertion when the record it
\* restores has no SKI, or no manifest locator and a purpose other than
\* BGPsec-router; reading back a record that cert_parse_pre returned (the
\* only records that own a certificate object) never does.
Thm_C21_ReadAsserts ==
    /\ [][(ReadStep /\ LacksSkiOrMft(res))
          => (pc' = "aborted" /\ fatal' /\ rd' = FREED)]_vars
    /\ [][(ReadStep /\ res.x509.present)
          => (pc' = "read" /\ ~ fatal')]_vars
    /\ []((Returned /\ res.x509.present) => ~ LacksSkiOrMft(res))

\* a CA record without manifest locator was written and read back, and the
\* process ended
Wit_C21_Aborted ==
    /\ pc = "aborted"
    /\ fatal
    /\ res.ski = SkiA
    /\ res.mft = NULL
    /\ res.purpose = CERT_PURPOSE_CA


AsElemStepOf(t) == pc = "sbgp_assysnum" /\ last' = In("AsElemStep", t)

\* the element is an explicit-tagged element that ASN1_frame accepts
Framed(t) == t.type = "OTHER" /\ t.frame_ok

\* the content of an AS-number element is one sbgp_asnum decodes
AsnumContentOk(t) ==
    /\ t.t_ok
    /\ t.ttype \in {"NULL", "SEQUENCE"}
    /\ t.ttype = "SEQUENCE" => t.seq_ok

\* the loop of sbgp_assysnum is at its next element with the record as it was
Skipped == pc' = "sbgp_assysnum" /\ res' = res /\ diag' = ""

IpEntryOf(f, t) ==
    IF t.type = "BIT_STRING"
    THEN IpEntry(f, CERT_IP_ADDR, t.lo, t.hi)
    ELSE IpEntry(f, CERT_IP_RANGE, t.seq[1].lo, t.seq[2].hi)

\* the entry an ASIdOrRange item stands for
AsEntryOf(tt) ==
    IF tt.type = "INTEGER"
    THEN AsId(tt.int)
    ELSE AsRange(tt.seq[1].int, tt.seq[2].int)

\* the step decodes an item and the parse goes on
DecodesIpItem == pc = "sbgp_addr_or_range" /\ last'.op = "IpItemStep"
DecodesIpInherit ==
    pc = "sbgp_ipaddrblk" /\ last'.op = "IpFamStep" /\ last'.in.choice = "NULL"
DecodesAsItem == pc = "sbgp_asnum" /\ last'.op = "AsItemStep"
DecodesAsInherit ==
    /\ pc = "sbgp_assysnum"
    /\ last'.op = "AsElemStep"
    /\ last'.in.ptag = ASID_TYPE_ASNUM
    /\ last'.in.ttype = "NULL"

\* the item is a prefix or a range the decoders take, low end first
WellFormedIpItem(t) ==
    /\ t.type \in {"BIT_STRING", "SEQUENCE"}
    /\ t.d2i_ok /\ t.ok
    /\ t.type = "SEQUENCE" =>
          (/\ Len(t.seq) = 2
           /\ \A k \in 1..2 : t.seq[k].type = "BIT_STRING" /\ t.seq[k].ok)
    /\ IpEntryOf("", t).min <= IpEntryOf("", t).max

\* e lies next to an entry of the list without a gap
AbutsIp(e, ips) ==
    \E i \in 1..Len(ips) :
        /\ ips[i].afi = e.afi
        /\ ips[i].type # CERT_IP_INHERIT
        /\ (ips[i].max + 1 = e.min \/ e.max + 1 = ips[i].min)

\* C25: while a certificate is decoded, each inherit marker, prefix and
\* range decoded adds its one entry at the end of the IP list, each inherit
\* marker, singleton and range its one entry at the end of the AS list, and
\* no other step changes either list of a record, up to and after its
\* return; the lists start empty; a range or prefix that abuts an entry
\* without overlapping any is added like any other.
Thm_C25_ListsInOrder ==
    /\ [][(HoldsRecord /\ HoldsRecord') =>
            CASE DecodesIpItem ->
                   /\ res'.ips = Append(res.ips, IpEntryOf(afi, last'.in))
                   /\ res'.as = res.as
              [] DecodesIpInherit ->
                   /\ res'.ips = Append(res.ips, IpInherit(last'.in.afi))
                   /\ res'.as = res.as
              [] DecodesAsItem ->
                   /\ res'.as = Append(res.as, AsEntryOf(last'.in))
                   /\ res'.ips = res.ips
              [] DecodesAsInherit ->
                   /\ res'.as = Append(res.as, AsInherit)
                   /\ res'.ips = res.ips
              [] OTHER -> res'.ips = res.ips /\ res'.as = res.as]_vars
    /\ [][(~ HoldsRecord /\ HoldsRecord') =>
            (res'.ips = << >> /\ res'.as = << >>)]_vars
    /\ [][(/\ DecodesIpItem
           /\ WellFormedIpItem(last'.in)
           /\ AbutsIp(IpEntryOf(afi, last'.in), res.ips)
           /\ \A i \in 1..Len(res.ips) :
                 ~ IpOverlap(IpEntryOf(afi, last'.in), res.ips[i])
           /\ Len(res.ips) < MAX_IP_SIZE)
          => HoldsRecord']_vars

\* a record was returned whose two ranges abut and stand in the order they
\* were decoded in, the higher one first
Wit_C25_AbuttingRanges ==
    /\ pc = "accepted"
    /\ res.ips = <<IpEntry(AFI_IPV4, CERT_IP_RANGE, 1, 1),
                   IpEntry(AFI_IPV4, CERT_IP_RANGE, 0, 0)>>


\* the values of pc at which cert_parse_pre is decoding into its record
InParsePre ==
    pc \in {"exts", "sbgp_assysnum", "sbgp_asnum", "sbgp_ipaddrblk",
            "sbgp_addr_or_range", "sbgp_sia"}

\* the values of pc at which the record has been released
Released == pc \in {"rejected", "cert_bad", "ta_bad", "freed"}

\* C27: the X509 object decoded for a certificate is released exactly once
\* on every path. While cert_parse_pre decodes, the object is live and the
\* record does not own it; a failing step releases it once; a returned record
\* owns the live object; cert_free, called by the caller or by cert_parse or
\* ta_parse on rejection, releases it once with the record. It is never
\* released twice, and a released record is not held any more.
Thm_C27_ReleasedOnce ==
    /\ [](xobj.frees <= 1)
    /\ [](InParsePre => (xobj.exists /\ xobj.frees = 0 /\ ~ res.x509.present))
    /\ [](Returned => (xobj.exists /\ xobj.frees = 0 /\ res.x509.present))
    /\ [](Released => (res = FREED /\ (xobj.exists => xobj.frees = 1)))
    /\ [][(InParsePre /\ pc' = "rejected") => xobj'.frees = xobj.frees + 1]_vars
    /\ [][(Returned /\ Released') =>
            (/\ last'.op \in {"CertParse", "TaParse", "CertFree"}
             /\ xobj'.frees = xobj.frees + 1)]_vars
    /\ [][(Released /\ pc' # pc) => last'.op = "ParseBegin"]_vars

\* ta_parse refused a record that owned its object, and cert_free released
\* the object once with the record
Wit_C27_ReleasedByTaParse ==
    /\ pc = "ta_bad"
    /\ res = FREED
    /\ xobj.exists
    /\ xobj.frees = 1

-----------------------------------------------------------------------------
(* Properties of the indexes *)

SameTriple(a, b) == a.asid = b.asid /\ a.ski = b.ski /\ a.pubkey = b.pubkey

\* the records inserted so far for the triple of b
InsertedFor(b) == {k \in 1..Len(brklog) : SameTriple(brklog[k], b)}

\* C3: the router-key index holds at most one entry per (AS identifier,
\* SKI, public key), one for every triple inserted, and the entry's expiry
\* is the latest expiry among the records inserted for its triple.
Thm_C3_BrkMerge ==
    /\ \A i, j \in 1..Len(brks) : SameTriple(brks[i], brks[j]) => i = j
    /\ \A k \in 1..Len(brklog) : \E i \in 1..Len(brks) : SameTriple(brks[i], brklog[k])
    /\ \A i \in 1..Len(brks) :
          /\ \E k \in InsertedFor(brks[i]) : brks[i].expires = brklog[k].expires
          /\ \A k \in InsertedFor(brks[i]) : brks[i].expires >= brklog[k].expires

\* a triple was inserted with expiry 2, then 3, then 1, and is held once
Wit_C3_LaterExpiryKept ==
    /\ Len(brklog) = 3
    /\ SameTriple(brklog[1], brklog[2])
    /\ SameTriple(brklog[2], brklog[3])
    /\ brklog[1].expires = 2
    /\ brklog[2].expires = 3
    /\ brklog[3].expires = 1
    /\ Len(brks) = 1
    /\ brks[1].expires = 3

AuthInsertStep == ~ fatal /\ last'.op = "AuthInsert"

DuplicateSki(ski) == \E i \in 1..Len(auths) : strcmp(auths[i].cert.ski, ski) = 0

\* C4: auth_insert of a certificate whose SKI equals that of a certificate
\* in the trust index ends the process with the index as it was; any other
\* auth_insert adds the certificate; the index never holds two entries with
\* the same SKI.
Thm_C4_AuthDuplicateFatal ==
    /\ [](\A i, j \in 1..Len(auths) :
             auths[i].cert.ski = auths[j].cert.ski => i = j)
    /\ [][AuthInsertStep =>
            IF DuplicateSki(last'.in.cert.ski)
            THEN fatal' /\ auths' = auths
            ELSE /\ ~ fatal'
                 /\ Len(auths') = Len(auths) + 1
                 /\ \E i \in 1..Len(auths') : auths'[i].cert = last'.in.cert]_vars

\* a certificate with the SKI of an indexed one, and another AKI, was
\* inserted and the process ended
Wit_C4_DuplicateFatal ==
    /\ fatal
    /\ last.op = "AuthInsert"
    /\ \E i \in 1..Len(auths) :
          /\ auths[i].cert.ski = last.in.cert.ski
          /\ auths[i].cert # last.in.cert

Indexed(ski) == \E i \in 1..Len(auths) : auths[i].cert.ski = ski

\* every node of the tree is a node of the tree after the step
NodesKept == \A i \in 1..Len(auths) : \E j \in 1..Len(auths') : auths'[j] = auths[i]

\* C16: auth_find(aki) returns the entry whose certificate's SKI equals aki
\* if a certificate with that SKI has been inserted, and NULL otherwise; an
\* inserted entry stays in the index as it is through every later insertion.
Thm_C16_AuthFind ==
    /\ [](last.op = "AuthFind" =>
            IF Indexed(last.in.aki)
            THEN /\ \E i \in 1..Len(auths) : auths[i] = last.in.found
                 /\ last.in.found.cert.ski = last.in.aki
            ELSE last.in.found = NoParent)
    /\ [][NodesKept]_vars
    /\ [][(AuthInsertStep /\ ~ fatal')
          => \E j \in 1..Len(auths') : auths'[j].cert = last'.in.cert]_vars

\* among three indexed certificates the one whose SKI extends another's was
\* found
Wit_C16_Found ==
    /\ Len(auths) = 3
    /\ last.op = "AuthFind"
    /\ last.in.aki = SkiB
    /\ last.in.found # NoParent
    /\ last.in.found.cert.ski = SkiB

\* the AS identifiers a record's AS entries cover
CoveredAsids(as) ==
    {a \in 0..UINT32_MAX :
        \E i \in 1..Len(as) :
            \/ as[i].type = CERT_AS_ID /\ a = as[i].id
            \/ as[i].type = CERT_AS_RANGE /\ as[i].min <= a /\ a <= as[i].max}

FirstLatest(b) ==
    CHOOSE k \in InsertedFor(b) :
        /\ \A j \in InsertedFor(b) : brklog[j].expires <= brklog[k].expires
        /\ \A j \in InsertedFor(b) :
              brklog[j].expires = brklog[k].expires => k <= j

\* the entry of the tree with the triple of b, 0 if there is none
EntryFor(tree, b) ==
    IF \E i \in 1..Len(tree) : SameTriple(tree[i], b)
    THEN CHOOSE i \in 1..Len(tree) : SameTriple(tree[i], b)
    ELSE 0

\* C22: insert_brk on a triple the index holds replaces the entry's expiry
\* and trust-anchor-group id together when the new expiry is strictly later,
\* and leaves the index as it is otherwise; so the entry's group id and expiry
\* are those of the earliest-inserted record with the latest expiry for its
\* triple.
Thm_C22_BrkTalid ==
    /\ \A i \in 1..Len(brks) :
          /\ InsertedFor(brks[i]) # {}
          /\ brks[i].expires = brklog[FirstLatest(brks[i])].expires
          /\ brks[i].talid = brklog[FirstLatest(brks[i])].talid
    /\ \A c \in BrkCerts :
          LET b == NewBrk(c, 1)
              f == EntryFor(brks, b)
              t == insert_brk(brks, c, 1)
          IN  f # 0 =>
                IF brks[f].expires < c.expires
                THEN t = [brks EXCEPT ![f].expires = c.expires,
                                      ![f].talid = c.talid]
                ELSE t = brks

\* a triple was inserted with group id 1, then with group id 0 and the same
\* expiry, then with group id 0 and an earlier expiry: the entry keeps id 1
Wit_C22_TieKeepsFirst ==
    /\ Len(brklog) = 3
    /\ SameTriple(brklog[1], brklog[2])
    /\ SameTriple(brklog[2], brklog[3])
    /\ brklog[1].talid = 1 /\ brklog[1].expires = 2
    /\ brklog[2].talid = 0 /\ brklog[2].expires = 2
    /\ brklog[3].talid = 0 /\ brklog[3].expires = 1
    /\ Len(brks) = 1
    /\ brks[1].talid = 1
    /\ brks[1].expires = 2


\* C23: in the trust index as the validator fills it every entry with a
\* parent link has the AKI of its certificate equal to the SKI of the parent
\* certificate, which is itself indexed, and a root entry has no parent
\* link; auth_insert puts the supplied parent and the certificate into the
\* new entry.
Thm_C23_ParentLink ==
    /\ [](\A i \in 1..Len(auths) :
             /\ auths[i].parent # NoParent =>
                   /\ auths[i].parent.ski = auths[i].cert.aki
                   /\ \E j \in 1..Len(auths) : auths[j].cert = auths[i].parent
             /\ IsRoot(auths[i].cert) => auths[i].parent = NoParent)
    /\ [][(AuthInsertStep /\ ~ fatal')
          => \E j \in 1..Len(auths') :
                auths'[j] = [cert |-> last'.in.cert, parent |-> last'.in.parent]]_vars

\* a chain of three: an entry whose parent has a parent of its own, the
\* SKI of one being a prefix of the other's
Wit_C23_Chain ==
    \E i, j \in 1..Len(auths) :
        /\ auths[i].parent # NoParent
        /\ auths[j].cert = auths[i].parent
        /\ auths[j].parent # NoParent
        /\ auths[j].parent.ski = SkiA
        /\ auths[j].cert.ski = SkiB


\* the inner loop is left by this step
LeavesRange == cib.active /\ cib.inner /\ last'.op = "CibInner" /\ ~ cib'.inner

RangeOf(f) == f.cert.as[f.i + 1]

\* no range of the record ends at the largest identifier
BelowMax(as) ==
    \A k \in 1..Len(as) : as[k].type = CERT_AS_RANGE => as[k].max < UINT32_MAX

\* the loops count as the claim has it
CountsRight ==
    /\ [][LeavesRange =>
            cib.n = RangeOf(cib).max - RangeOf(cib).min + 1]_vars
    /\ [][last'.op = "CibOuter" => cib.i < Len(cib.cert.as)]_vars
    /\ [][last'.op = "CibReturn" => cib.i = Len(cib.cert.as)]_vars

\* C26: every call of cert_insert_brks returns; the loop over a range is
\* left after max - min + 1 calls of insert_brk, also when max is the largest
\* identifier; the outer loop takes each entry once and ends after the last.
Claim_C26_Terminates ==
    /\ cib.active ~> ~ cib.active
    /\ CountsRight

\* C26 (what holds): a call returns, with the loops counting as stated,
\* when a size_t is wider than an identifier or no range of the record ends
\* at the largest identifier.
Thm_C26_TerminatesUnlessWrap ==
    /\ (cib.active /\ (size_w > AsnBits \/ BelowMax(cib.cert.as)))
          ~> ~ cib.active
    /\ CountsRight

\* a build with a size_t as wide as an identifier is in the loop over a
\* range that ends at the largest identifier, asid has wrapped to 0, and
\* insert_brk has been called more often than there are identifiers
Wit_C26_Wrapped ==
    /\ size_w = AsnBits
    /\ cib.active
    /\ cib.inner
    /\ RangeOf(cib).max = UINT32_MAX
    /\ cib.asid = 0
    /\ cib.n = CountCap
    /\ Len(brks) = UINT32_MAX + 1


-----------------------------------------------------------------------------
(* Properties of pf_state_list *)

\* context p has taken its snapshot and not yet left the read lock
AfterSnapshot(p) == pf_pc[p] \in {"mtx_leave", "while", "body", "exit_read"}

\* context p is inside a list operation
PfBusy(p) == pf_pc[p] # "idle"

\* C28: a traversal under the read lock, with its head and tail taken under
\* the mutex, visits the states that were on the list at its snapshot, in
\* list order, and is done exactly when it has visited them all up to its
\* tail, whatever the insertions and removals around it do; it never follows
\* a NULL link; no state leaves the list while a context holds the read
\* lock; and whenever contexts are inside list operations one of them can
\* take its next step.
Thm_C28_Traversal ==
    /\ [](\A p \in Traversers :
            /\ pf_pc[p] # "crashed"
            /\ AfterSnapshot(p) =>
                  /\ Len(pf_loc[p].visited) <= Len(pf_loc[p].snap)
                  /\ pf_loc[p].visited =
                        SubSeq(pf_loc[p].snap, 1, Len(pf_loc[p].visited))
                  /\ \A i \in 1..Len(pf_loc[p].snap) : pf_loc[p].snap[i] \in OnList
            /\ pf_pc[p] = "exit_read" => pf_loc[p].visited = pf_loc[p].snap
            /\ pf_pc[p] = "body" => pf_loc[p].visited # pf_loc[p].snap)
    /\ [][(\E s \in PfStates : s \in OnList /\ s \notin OnList')
          => (pfs_rwl.readers = {} /\ pfs_rwl.writer \in Removers)]_vars
    /\ [](pfs_rwl.writer # NoOwner => pfs_rwl.readers = {})
    /\ []((\E p \in PfProcs : PfBusy(p))
          => \E q \in PfProcs : PfBusy(q) /\ ENABLED PfStep(q))

\* a traversal is done with the two states of its snapshot while a third,
\* inserted after the snapshot, is on the list
Wit_C28_InsertedAfterSnapshot ==
    /\ pf_pc["ioctl"] = "exit_read"
    /\ Len(pf_loc["ioctl"].snap) = 2
    /\ pf_loc["ioctl"].visited = pf_loc["ioctl"].snap
    /\ Len(PfList) = 3
    /\ pfs_rwl.readers = {"ioctl", "pfsync"}

-----------------------------------------------------------------------------
(* Properties of sndiod's signal handling *)

QuitSignals == {"SIGINT", "SIGTERM"}

\* this step is the delivery of signal s
Delivered(s) == sig_last'.op = "deliver" /\ sig_last'.sig = s

\* this step is a statement of main
MainMoved == sig_last'.op = "main"

\* setsig has returned
SetsigHasRun == main_pc \notin ({"start"} \cup InSetsig)

\* main is past the shutdown that follows the loop
ShutdownDone == main_pc \in (InUnsetsig \cup {"return"})

\* main is in its loop no more, or the process is no more
LoopLeft == main_pc \notin InLoop \/ exited # Running

\* the reopen has just been started, with the flag cleared
NewReopen == main_pc = "reopen" /\ reopen_pos = 0 /\ reopen_flag = 0

\* between setsig's return and the call of unsetsig the three handlers are
\* in place
HandlersInPlace ==
    (main_pc \in ({"init", "shutdown"} \cup InLoop))
        => /\ \A s \in QuitSignals : sigact[s] = "sigint"
           /\ sigact["SIGHUP"] = "sighup"

\* a SIGINT or SIGTERM of which `known' holds finds quit_flag at 0:
\* it raises the flag and does nothing else
FirstQuitOnlyRaises(known) ==
    \A s \in QuitSignals :
        (known[s] /\ quit_flag = 0 /\ exited = Running /\ Delivered(s))
            => /\ quit_flag' = 1
               /\ exited' = Running
               /\ UNCHANGED <<reopen_flag, sigact, main_pc, reopen_pos,
                              fdpass_peer>>

\* a SIGINT or SIGTERM of which `known' holds finds quit_flag set: the
\* process exits in that very step, with status 1
FurtherQuitExits(known) ==
    \A s \in QuitSignals :
        (known[s] /\ quit_flag # 0 /\ exited = Running /\ Delivered(s))
            => exited' = ExitBySigint

\* a SIGHUP of which `known' holds raises reopen_flag and does nothing else
HupRaises(known) ==
    (known["SIGHUP"] /\ exited = Running /\ Delivered("SIGHUP"))
        => /\ reopen_flag' = 1
           /\ UNCHANGED <<quit_flag, exited, sigact, main_pc, reopen_pos,
                          fdpass_peer>>

\* the test at the head of the loop leaves the loop for the shutdown when
\* quit_flag is set
LoopBreaksOnQuit ==
    (main_pc = "loop" /\ quit_flag # 0 /\ MainMoved) => main_pc' = "shutdown"

\* main clears reopen_flag nowhere but at the start of a reopen (and in
\* setsig), and no reopen starts with the flag set
ClearedBeforeReopen ==
    /\ (MainMoved /\ reopen_flag # 0 /\ reopen_flag' = 0)
           => \/ main_pc = "start"
              \/ main_pc = "clear_reopen" /\ main_pc' = "reopen" /\ reopen_pos' = 0
    /\ (MainMoved /\ main_pc # "reopen" /\ main_pc' = "reopen")
           => reopen_flag' = 0 /\ reopen_pos' = 0

\* with quit_flag set in the loop, the shutdown is run, unless a further
\* SIGINT or SIGTERM ends the process first
QuitLeadsToShutdown ==
    (quit_flag # 0 /\ main_pc \in InLoop /\ exited = Running)
        ~> (ShutdownDone \/ exited = ExitBySigint)

\* a SIGHUP that arrived during the reopen is followed by a new reopen,
\* unless the loop is left first
HupDuringReopenServed ==
    (main_pc = "reopen" /\ reopen_flag # 0 /\ exited = Running)
        ~> (NewReopen \/ LoopLeft)

\* the signals for which sigint, or sighup, is installed at present, and
\* every signal once setsig has returned
sigintInstalled == [s \in Signals |-> sigact[s] = "sigint"]
sighupInstalled == [s \in Signals |-> sigact[s] = "sighup"]
sinceSetsig == [s \in Signals |-> SetsigHasRun]

====
